---- MODULE Spec2Model ----
(***************************************************************************)
(* LLM request orchestration of ai-notepad-app: the main-process           *)
(* LLMService (cache, token-bucket rate limiter, LM Studio / Gemini        *)
(* adapters with one fallback hop, error classification), and the          *)
(* renderer's LLMProcessor in front of it (cache, debouncer, offline mode). *)
(*                                                                         *)
(* Strings are sequences of tokens (a word, a blank, a colon ...), so that *)
(* concatenation and substring tests are computed, not assumed.            *)
(* Times are milliseconds, as returned by Date.now().                      *)
(***************************************************************************)
EXTENDS Integers, Sequences, FiniteSets, TLC

VARIABLES
    now,          \* Date.now()
    provider,     \* LLMService.provider
    geminiKey,    \* LLMService.apiKeys.gemini
    cache,        \* LLMService.cache, least recently used entry first
    tokens,       \* RateLimiter.tokens
    lastRefill,   \* RateLimiter.lastRefillTimestamp
    calls,        \* the processRequest / checkGrammar / rephraseText calls
    started,      \* number of calls issued so far
    lastReturn,   \* the request and the outcome of the call that returned last
    online,       \* navigator.onLine
    fcache,       \* LLMProcessor.cache, least recently used entry first
    timer,        \* Debouncer.timeout
    lastCall,     \* Debouncer.lastCall
    fcalls,       \* the checkGrammar / rephraseText calls of LLMProcessor
    parseIn,      \* provider text handed to the JSON extraction
    parseOut,     \* what the extraction made of parseIn
    jsonEngine,   \* the JavaScript engine whose JSON.parse the process runs
    consumers,    \* the consume() calls made on a RateLimiter of its own
    dcalls,       \* the debounce() calls made on a Debouncer of its own
    ipcIn,        \* the arguments of a call of IPCBridge.invoke or send
    ipcOut        \* what came of that call

svcVars == <<provider, geminiKey, cache, tokens, lastRefill, calls, lastReturn>>

rendererVars == <<online, fcache, timer, lastCall, fcalls>>

parseVars == <<parseIn, parseOut, jsonEngine>>

bridgeVars == <<ipcIn, ipcOut>>

unitVars == <<consumers, dcalls, bridgeVars>>

vars == <<now, started, svcVars, rendererVars, parseVars, unitVars>>

-----------------------------------------------------------------------------
(* Bounds of the model *)

MaxCalls == 2
MaxSlots == 2
MaxTicks == 1
MaxProse == 2
MaxExtra == 2

\* the calls made on the Debouncer on its own
MaxDebounced == 3

\* the nesting depth of the data handed to IPCBridge
MaxDepth == 2

(* Program constants *)

MaxTokens == 10
RefillRate == 2
CacheMax == 100
CacheTtl == 3600000
DefaultConfidence == 80
DebounceDelay == 500
OfflineConfidence == 70

\* the time one token takes to accrue; the clock of the model moves in such steps
TokenMs == 1000 \div RefillRate

\* Debouncer.lastCall starts at 0, the epoch of Date.now(); the times of the
\* model count from the construction of the services, long after the epoch
Epoch == 0 - CacheTtl

\* the number of clock steps that led to time t
StepsTo(t) == (t \div CacheTtl) + ((t % CacheTtl) \div TokenMs)

-----------------------------------------------------------------------------
(* Strings *)

EmptyStr == <<>>

\* undefined, as a value, and as the argument a caller leaves out
Undefined == "undefined"

UndefinedArg == <<Undefined>>

\* a parameter with a default value: (language: string = 'en')
DefaultArg(s, default) == IF s = UndefinedArg THEN default ELSE s

Includes(s, tok) == \E i \in DOMAIN s : s[i] = tok

Min(a, b) == IF a <= b THEN a ELSE b

\* interfaces/constants.ts ErrorCodes
UNKNOWN_ERROR == "ERR_UNKNOWN"
VALIDATION_ERROR == "ERR_VALIDATION"
API_ERROR == "ERR_API"
NETWORK_ERROR == "ERR_NETWORK"
TIMEOUT_ERROR == "ERR_TIMEOUT"
AUTH_ERROR == "ERR_AUTH"
LLM_PARSE_ERROR == "ERR_LLM_PARSE"

-----------------------------------------------------------------------------
(* Requests *)

GrammarCheck == <<"grammar-check">>
Rephrase == <<"rephrase">>
Translate == <<"translate">>

\* an operation that is not supported either, and whose name is a word that
\* handleError looks for in the message of an error
TimeoutOperation == <<"timeout">>

SomeText == <<"teh", " ", "cat">>
Texts == {EmptyStr, SomeText}

MkRequest(op, style, language, text) ==
    [operation |-> op, style |-> style, language |-> language, text |-> text]

\* the requests handed to processRequest directly
DirectRequests ==
    { MkRequest(GrammarCheck, EmptyStr, <<"en">>, t) : t \in Texts }
      \cup { MkRequest(op, EmptyStr, EmptyStr, SomeText) :
                op \in {Translate, TimeoutOperation} }

NoRequest == MkRequest(EmptyStr, EmptyStr, EmptyStr, EmptyStr)

generateCacheKey(request) ==
    request.operation \o <<":">> \o request.style \o <<":">>
        \o request.language \o <<":">> \o request.text

SupportedOperation(request) == request.operation \in {GrammarCheck, Rephrase}

-----------------------------------------------------------------------------
(* Errors: what a catch clause receives *)

NoErr ==
    [kind |-> "none", hasResponse |-> FALSE, hasRequest |-> FALSE,
     status |-> "", detail |-> EmptyStr, message |-> EmptyStr]

PlainError(msg) ==
    [kind |-> "Error", hasResponse |-> FALSE, hasRequest |-> FALSE,
     status |-> "", detail |-> EmptyStr, message |-> msg]

\* an AxiosError: response set when the server answered with a non-2xx status
\* (detail is response.data.error.message, or else response.data.error, or
\* else response.statusText), request set when the request was sent
AxiosError(hasResponse, hasRequest, status, detail, msg) ==
    [kind |-> "Axios", hasResponse |-> hasResponse, hasRequest |-> hasRequest,
     status |-> status, detail |-> detail, message |-> msg]

InvalidTextInput == PlainError(<<"Invalid", "text", "input">>)
\* new Error(`Unsupported operation: ${request.operation}`)
UnsupportedOperation(operation) ==
    PlainError(<<"Unsupported", "operation", ":">> \o operation)
GeminiKeyNotConfigured == PlainError(<<"Gemini", "API key", "not", "configured">>)
FailedToParse(who) == PlainError(<<"Failed", "to", "parse", who, "response">>)
NoResponse == [original |-> EmptyStr, suggestions |-> <<>>, error |-> <<>>]

\* an error response that still carries a suggestion
handleErrorWithSuggestion(error, request) ==
    [original |-> request.text,
     suggestions |-> <<[text |-> "o1", confidence |-> DefaultConfidence,
                        type |-> "grammar"]>>,
     error |-> <<UNKNOWN_ERROR, ":">> \o <<"Unknown", "error", "occurred">>]

handleError(error, request) ==
    LET axiosResponse == error.kind = "Axios" /\ error.hasResponse
        axiosRequest == error.kind = "Axios" /\ ~error.hasResponse /\ error.hasRequest
        errorMessage ==
            IF axiosResponse THEN <<"API Error:", error.status, "-">> \o error.detail
            ELSE IF axiosRequest
                 THEN <<"No", "response", "received", "from", "LLM", "service">>
            ELSE IF error.kind = "Error" THEN error.message
            ELSE <<"Unknown", "error", "occurred">>
        errorCode ==
            IF axiosResponse THEN API_ERROR
            ELSE IF axiosRequest THEN NETWORK_ERROR
            ELSE IF error.kind = "Error" /\ Includes(error.message, "API key")
                 THEN AUTH_ERROR
            ELSE IF error.kind = "Error" /\ Includes(error.message, "timeout")
                 THEN TIMEOUT_ERROR
            ELSE UNKNOWN_ERROR
    IN  [original |-> request.text,
         suggestions |-> <<>>,
         error |-> <<errorCode, ":">> \o errorMessage]

ErrorCodeOf(response) == response.error[1]

HasError(response) == response.error # <<>>

-----------------------------------------------------------------------------
(* Provider text and its reduction to suggestions.                          *)
(* A provider text is a sequence of tokens: "[", "]", ",", the JSON objects  *)
(* of JsonObjects, and anything else (prose, markdown fences).               *)

\* the JSON objects a provider may write; confidence in hundredths
JsonObjects ==
    [o1 |-> [text |-> "the cat", hasConfidence |-> TRUE, confidence |-> 95,
             hasType |-> TRUE, type |-> "spelling"],
     o2 |-> [text |-> "a cat", hasConfidence |-> FALSE, confidence |-> 0,
             hasType |-> FALSE, type |-> ""],
     o3 |-> [text |-> "the cat", hasConfidence |-> TRUE, confidence |-> 0,
             hasType |-> TRUE, type |-> "grammar"],
     o4 |-> [text |-> "a cat", hasConfidence |-> TRUE, confidence |-> 150,
             hasType |-> TRUE, type |-> ""]]

ObjectTokens == DOMAIN JsonObjects

FirstIndexOf(s, tok) ==
    IF Includes(s, tok)
    THEN CHOOSE i \in DOMAIN s : s[i] = tok /\ \A j \in 1..(i - 1) : s[j] # tok
    ELSE 0

LastIndexOf(s, tok) ==
    IF Includes(s, tok)
    THEN CHOOSE i \in DOMAIN s : s[i] = tok /\ \A j \in (i + 1)..Len(s) : s[j] # tok
    ELSE 0

\* responseText.match(/\[.*\]/s): the leftmost "[" up to the last "]" after it,
\* <<>> when there is no match
MatchArray(responseText) ==
    LET i == FirstIndexOf(responseText, "[")
        j == LastIndexOf(responseText, "]")
    IN  IF i > 0 /\ j > i THEN SubSeq(responseText, i, j) ELSE <<>>

\* JSON.parse of a text that begins with "[": the elements of the outermost
\* array (a nested array is the element "array"), or a SyntaxError: at is the
\* token the parser stopped at (Len + 1 at the end of the text) and fault is
\* "token" when a value was expected there, "element" when ',' or ']' was
\* expected after an array element, "after" when the value was complete
\* before it, "end" when the text ended where a value was expected
RECURSIVE JsonScan(_, _, _, _, _)
JsonScan(s, i, depth, st, elems) ==
    IF i > Len(s)
    THEN IF depth = 0 /\ st = "value"
         THEN [ok |-> TRUE, elems |-> elems, fault |-> "none", at |-> 0]
         ELSE [ok |-> FALSE, elems |-> <<>>,
               fault |-> IF st = "value" THEN "element" ELSE "end", at |-> i]
    ELSE IF s[i] = "[" /\ st \in {"start", "open", "comma"}
         THEN JsonScan(s, i + 1, depth + 1, "open",
                       IF depth = 1 THEN Append(elems, "array") ELSE elems)
    ELSE IF s[i] \in ObjectTokens /\ st \in {"open", "comma"}
         THEN JsonScan(s, i + 1, depth, "value",
                       IF depth = 1 THEN Append(elems, s[i]) ELSE elems)
    ELSE IF s[i] = "]" /\ st \in {"open", "value"} /\ depth >= 1
         THEN JsonScan(s, i + 1, depth - 1, "value", elems)
    ELSE IF s[i] = "," /\ st = "value" /\ depth >= 1
         THEN JsonScan(s, i + 1, depth, "comma", elems)
    ELSE [ok |-> FALSE, elems |-> <<>>,
          fault |-> IF st # "value" THEN "token"
                    ELSE IF depth = 0 THEN "after" ELSE "element",
          at |-> i]

JsonParse(s) == JsonScan(s, 1, 0, "start", <<>>)

\* The message of the SyntaxError depends on the engine. README line 116 asks
\* for Node.js v18 or later. V8 10 (Node.js 18) names the character and its
\* position. V8 11 (Node.js 20) quotes the text when a value was expected,
\* the whole of it when it is shorter than 21 characters and otherwise the 10
\* characters before and after the position, and names the position
\* otherwise. V8 12 (Node.js 22) does as V8 11 and adds the line and the
\* column to a message that names a position.
JsonEngines == {"V8 10", "V8 11", "V8 12"}

\* the characters of a token, as far as JSON.parse looks at them; the tokens
\* of a text are written with one space between them
TokenWidth(tok) ==
    CASE tok \in {"[", "]", ","} -> 1
      [] tok = "o1" -> 54
      [] tok = "o2" -> 16
      [] tok = "o3" -> 50
      [] tok = "o4" -> 43
      [] tok = "timeout" -> 7
      [] tok = "Sorry" -> 5
      [] tok = "~~~" -> 3
      [] OTHER -> 4

RECURSIVE TextWidth(_)
TextWidth(s) ==
    IF s = <<>> THEN 0
    ELSE IF Len(s) = 1 THEN TokenWidth(s[1])
    ELSE TokenWidth(s[1]) + 1 + TextWidth(Tail(s))

\* index of the first character of token i (of the end of the text past it)
TokenStart(s, i) ==
    IF i = 1 THEN 0
    ELSE IF i > Len(s) THEN TextWidth(s)
    ELSE TextWidth(SubSeq(s, 1, i - 1)) + 1

\* where a value is expected, a token that begins like true or null is read
\* up to its first character that differs: the second of timeout and of note
ScannedChars(tok) == IF tok \in {"timeout", "note"} THEN 1 ELSE 0

UnexpectedChar(tok, scanned) ==
    CASE tok = "timeout" -> IF scanned = 1 THEN "i" ELSE "t"
      [] tok = "note" -> IF scanned = 1 THEN "o" ELSE "n"
      [] tok = "Here" -> "H"
      [] tok = "Sorry" -> "S"
      [] tok = "~~~" -> "~"
      [] tok \in ObjectTokens -> "{"
      [] OTHER -> tok

\* the tokens of s that lie whole within the characters pos - 10 .. pos + 9,
\* all of them when s has fewer than 21 characters
Excerpt(s, pos) ==
    LET len == TextWidth(s)
        lo == IF len < 21 \/ pos < 10 THEN 0 ELSE pos - 10
        hi == IF len < 21 \/ pos >= len - 10 THEN len ELSE pos + 10
        within == { k \in DOMAIN s :
                      /\ lo <= TokenStart(s, k)
                      /\ TokenStart(s, k) + TokenWidth(s[k]) <= hi }
    IN  (IF lo > 0 THEN <<"...">> ELSE <<>>)
        \o [k \in 1..Cardinality(within) |->
              s[CHOOSE j \in within : Cardinality({i \in within : i < j}) = k - 1]]
        \o (IF hi < len THEN <<"...">> ELSE <<>>)

\* the SyntaxError JSON.parse(text) throws under the engine
JsonSyntaxError(text, engine) ==
    LET parsed == JsonParse(text)
        atEnd == parsed.at > Len(text)
        scanned == IF parsed.fault = "token" /\ ~atEnd
                   THEN ScannedChars(text[parsed.at]) ELSE 0
        pos == TokenStart(text, parsed.at) + scanned
        char == IF atEnd THEN "" ELSE UnexpectedChar(text[parsed.at], scanned)
        \* the tokens of a text stand on one line: column = position + 1
        where == <<"at", "position", ToString(pos)>>
                \o (IF engine = "V8 12"
                    THEN <<"(", "line", "1", "column", ToString(pos + 1), ")">>
                    ELSE <<>>)
        position == <<"in", "JSON">> \o where
    IN  PlainError(
          IF parsed.fault = "end" \/ (atEnd /\ engine = "V8 10")
          THEN <<"Unexpected", "end", "of", "JSON", "input">>
          ELSE IF engine = "V8 10"
          THEN <<"Unexpected", "token", char>> \o position
          ELSE IF parsed.fault = "token"
          THEN <<"Unexpected", "token", char, ",">> \o Excerpt(text, pos)
                 \o <<"is", "not", "valid", "JSON">>
          ELSE IF parsed.fault = "element"
          THEN <<"Expected", ",", "or", "]", "after", "array", "element">>
                 \o position
          ELSE <<"Unexpected", "non-whitespace", "character", "after", "JSON">>
                 \o where)

\* suggestions.map(s => ({text: s.text, confidence: s.confidence || 0.8,
\*                        type: s.type || 'unknown'}))
MapSuggestion(el) ==
    IF el \in ObjectTokens
    THEN LET s == JsonObjects[el]
         IN  [text |-> s.text,
              confidence |-> IF s.hasConfidence /\ s.confidence # 0
                             THEN s.confidence ELSE DefaultConfidence,
              type |-> IF s.hasType /\ s.type # "" THEN s.type ELSE "unknown"]
    ELSE [text |-> "undefined", confidence |-> DefaultConfidence, type |-> "unknown"]

MapSuggestions(elems) == [i \in DOMAIN elems |-> MapSuggestion(elems[i])]

\* lines 230-248 of callLMStudio, 332-350 of callGemini: what the adapter
\* returns (ok) or throws (~ok) for a 2xx answer carrying responseText
ParseProviderText(responseText, request, who) ==
    LET jsonMatch == MatchArray(responseText)
        parsed == JsonParse(jsonMatch)
    IN  IF jsonMatch = <<>>
        THEN [ok |-> FALSE, response |-> NoResponse, error |-> FailedToParse(who)]
        ELSE IF ~parsed.ok
        THEN [ok |-> FALSE, response |-> NoResponse,
              error |-> JsonSyntaxError(jsonMatch, jsonEngine)]
        ELSE [ok |-> TRUE,
              response |-> [original |-> request.text,
                            suggestions |-> MapSuggestions(parsed.elems),
                            error |-> <<>>],
              error |-> NoErr]

\* a provider text in three parts: prose, one array of suggestion objects, prose
NoText == [pre |-> <<>>, arr |-> <<>>, post |-> <<>>]

TextOf(parts) == parts.pre \o parts.arr \o parts.post

NotParsed == [state |-> "pending", suggestions |-> <<>>, error |-> NoErr]

-----------------------------------------------------------------------------
(* What axios.post may come back with *)

GoodPayload == <<"Here", "[", "o1", ",", "o2", "]">>
NoArrayPayload == <<"Sorry">>
BracketProsePayload == <<"[", "note", "]", "[", "o1", "]">>
BracketTimeoutPayload == <<"[", "timeout", "]">>

Payloads ==
    {GoodPayload, NoArrayPayload, BracketProsePayload, BracketTimeoutPayload}

\* HTTP 401: the provider rejects the credential
CredentialRejected ==
    AxiosError(TRUE, TRUE, "401", <<"API key", "not", "valid">>,
               <<"Request", "failed", "with", "status", "code", "401">>)
\* no answer within the timeout option of the request
TimeoutExceeded ==
    AxiosError(FALSE, TRUE, "", EmptyStr, <<"timeout", "of", "60000ms", "exceeded">>)
\* connection refused, DNS failure
NetworkDown ==
    AxiosError(FALSE, TRUE, "", EmptyStr, <<"Network", "Error">>)

NetErrors == {CredentialRejected, TimeoutExceeded, NetworkDown}

NetOutcomes ==
    { [kind |-> "ok", text |-> p, error |-> NoErr] : p \in Payloads }
      \cup { [kind |-> "fail", text |-> EmptyStr, error |-> e] : e \in NetErrors }

\* the adapter's result once its axios.post has settled
AdapterResult(outcome, request, who) ==
    IF outcome.kind = "ok" THEN ParseProviderText(outcome.text, request, who)
    ELSE [ok |-> FALSE, response |-> NoResponse, error |-> outcome.error]

-----------------------------------------------------------------------------
(* LRUCache({max: 100, ttl: 1 hour, allowStale: false}) *)

CacheIndex(c, key) ==
    IF \E i \in DOMAIN c : c[i].key = key
    THEN CHOOSE i \in DOMAIN c : c[i].key = key
    ELSE 0

Without(c, i) == SubSeq(c, 1, i - 1) \o SubSeq(c, i + 1, Len(c))

\* an entry that never expires
NeverStale(entry, t) == FALSE

IsStale(entry, t) == t - entry.start > CacheTtl

CacheHas(c, key, t) ==
    CacheIndex(c, key) > 0 /\ ~IsStale(c[CacheIndex(c, key)], t)

\* the age of the entry of key, -1 when there is none
EntryAge(c, key, t) ==
    IF CacheIndex(c, key) > 0 THEN t - c[CacheIndex(c, key)].start ELSE 0 - 1

\* the value get(key) returns on a hit
CacheValue(c, key) == c[CacheIndex(c, key)].value

\* a get that leaves the order of the entries as it is
CacheAfterGetUntouched(c, key, t) ==
    LET i == CacheIndex(c, key)
    IN  IF i = 0 THEN c
        ELSE IF t - c[i].start > CacheTtl THEN Without(c, i)
        ELSE c

\* the cache after get(key): a stale entry is deleted, a live one becomes the
\* most recently used
CacheAfterGet(c, key, t) ==
    LET i == CacheIndex(c, key)
    IN  IF i = 0 THEN c
        ELSE IF IsStale(c[i], t) THEN Without(c, i)
        ELSE Append(Without(c, i), c[i])

\* a lookup that never finds what was stored
cacheGetNeverFinds(c, key, t) == [found |-> FALSE, value |-> NoResponse]

\* const cachedResponse = this.cache.get(cacheKey); if (cachedResponse) ...
cacheGet(c, key, t) ==
    IF CacheHas(c, key, t)
    THEN [found |-> TRUE, value |-> CacheValue(c, key)]
    ELSE [found |-> FALSE, value |-> NoResponse]

\* the cache after set(key, value); by is the request the value was made for
CacheAfterSet(c, key, value, t, by) ==
    LET i == CacheIndex(c, key)
        entry == [key |-> key, value |-> value, start |-> t, by |-> by]
    IN  IF i > 0 THEN Append(Without(c, i), entry)
        ELSE IF Len(c) >= CacheMax THEN Append(Tail(c), entry)
        ELSE Append(c, entry)

-----------------------------------------------------------------------------
(* RateLimiter *)

\* refill(): [tokens, lastRefillTimestamp] afterwards
Refill(tok, last, t) ==
    [tokens |-> Min(MaxTokens, tok + ((t - last) * RefillRate) \div 1000),
     last |-> t]

\* waitTime = (tokens - this.tokens) * (1000 / this.refillRate)
WaitTime(cost, tok) == (cost - tok) * (1000 \div RefillRate)

\* the consume() calls of the limiter's own callers: capacity of them, and
\* MaxExtra more
Consumers == 1..(MaxTokens + MaxExtra)

\* a consume() that has not been called
NoConsume ==
    [pc |-> "idle", issuedAt |-> 0, wakeAt |-> 0, waited |-> FALSE, value |-> FALSE]

\* a consume() that reports failure
Refused(rec) == [rec EXCEPT !.pc = "rejected", !.value = FALSE]

\* return true (lines 44, 53)
Admitted(rec) == [rec EXCEPT !.pc = "returned", !.value = TRUE]

\* consume() from its call to its return or to its setTimeout (lines 39-49)
consume(c) ==
    LET rl == Refill(tokens, lastRefill, now)
        rec == [consumers[c] EXCEPT !.issuedAt = now]
    IN  /\ consumers[c].pc = "idle"
        /\ \A b \in 1..(c - 1) : consumers[b].pc # "idle"
        /\ lastRefill' = rl.last
        /\ IF rl.tokens >= 1
           THEN /\ tokens' = rl.tokens - 1
                /\ consumers' = [consumers EXCEPT ![c] = Admitted(rec)]
           ELSE /\ tokens' = rl.tokens
                /\ consumers' = [consumers EXCEPT ![c] =
                      [rec EXCEPT !.pc = "waiting", !.waited = TRUE,
                                  !.wakeAt = now + WaitTime(1, rl.tokens)]]
        /\ UNCHANGED <<now, started, provider, geminiKey, cache, calls, lastReturn,
                       rendererVars, parseVars, dcalls, bridgeVars>>

\* the setTimeout of consume() has fired: refill, debit, return (lines 50-53)
consumeResumes(c) ==
    LET rl == Refill(tokens, lastRefill, now)
    IN  /\ consumers[c].pc = "waiting"
        /\ now >= consumers[c].wakeAt
        /\ lastRefill' = rl.last
        /\ tokens' = rl.tokens - 1
        /\ consumers' = [consumers EXCEPT ![c] = Admitted(consumers[c])]
        /\ UNCHANGED <<now, started, provider, geminiKey, cache, calls, lastReturn,
                       rendererVars, parseVars, dcalls, bridgeVars>>

\* the calls are made within this time of the construction
LimiterHorizon == MaxExtra * TokenMs

\* time passes, by the time of one token; it passes as long as a timer is set
LimiterTick ==
    /\ \/ now < LimiterHorizon
       \/ \E c \in Consumers : consumers[c].pc = "waiting" /\ consumers[c].wakeAt > now
    /\ now' = now + TokenMs
    /\ UNCHANGED <<started, svcVars, rendererVars, parseVars, unitVars>>

-----------------------------------------------------------------------------
(* Calls into LLMService *)

Slots == 1..MaxSlots

Providers == {"local", "gemini"}
Keys == {"", "key"}

NoOutcome == [kind |-> "none", text |-> EmptyStr, error |-> NoErr]

\* a slot no call occupies; origin is the renderer call the IPC handler
\* serves, 0 for a call made directly; entryAge is the age of the cache entry
\* the lookup came across, -1 when there was none; cfgKey is the Gemini
\* key as it was when the provider was selected; ticket is the place of the
\* call among those whose continuation is queued, 0 when it is not; thrown
\* is the error an adapter has rejected with and processRequest has not caught
\* yet, hops the turns of the microtask queue the rejection still takes to
\* reach the catch clause, turn its place in that queue
Idle ==
    [pc |-> "idle", via |-> "", origin |-> 0, req |-> NoRequest, target |-> "",
     stage |-> "", wakeAt |-> 0, ticket |-> 0, looked |-> FALSE, entryAge |-> 0 - 1,
     hit |-> FALSE, wrote |-> FALSE,
     debited |-> 0, adapters |-> 0, nets |-> 0,
     cfgKey |-> "",
     primary |-> NoErr, fbKey |-> "", last |-> NoErr, outcome |-> NoOutcome,
     result |-> NoResponse, rejected |-> FALSE,
     thrown |-> NoErr, hops |-> 0, turn |-> 0]

NewCall(via, req, origin) ==
    [Idle EXCEPT !.via = via, !.req = req, !.origin = origin]

\* the call returns response to its caller
Returns(rec, response) == [rec EXCEPT !.pc = "done", !.result = response]

\* a processRequest that lets the error escape to its caller
CaughtNot(rec, error) ==
    [rec EXCEPT !.pc = "done", !.last = error, !.rejected = TRUE]

\* the catch clause of processRequest (lines 178-181)
Caught(rec, error) ==
    Returns([rec EXCEPT !.last = error], handleError(error, rec.req))

\* an adapter that processRequest awaits rejects with error (lines 166, 171):
\* the catch clause runs in a later turn of the microtask queue, one turn
\* after the rejection of the awaited adapter, three when the rejection comes
\* through the return this.callGemini(request) of callLMStudio (line 253)
Throws(rec, error) ==
    [rec EXCEPT !.pc = "entered", !.thrown = error,
                !.hops = IF rec.stage = "fallback" THEN 3 ELSE 1]

\* the rejection has reached processRequest: its catch clause runs
Catches(rec) ==
    IF rec.pc = "entered"
    THEN Caught([rec EXCEPT !.thrown = NoErr, !.hops = 0, !.turn = 0], rec.thrown)
    ELSE rec

\* callGemini up to its axios.post (lines 264-330), entered as stage
callGemini(rec, key, stage) ==
    LET r == [rec EXCEPT !.adapters = @ + 1, !.target = "gemini", !.stage = stage]
    IN  IF key = ""
        THEN Throws(r, GeminiKeyNotConfigured)
        ELSE IF ~SupportedOperation(rec.req)
        THEN Throws(r, UnsupportedOperation(rec.req.operation))
        ELSE [r EXCEPT !.pc = "net", !.nets = @ + 1]

\* a catch clause that falls back without looking at the credential
LMStudioFailedAlwaysFallsBack(rec, error, key) ==
    callGemini([rec EXCEPT !.primary = error, !.fbKey = key], key, "fallback")

\* the catch clause of callLMStudio (lines 249-259)
LMStudioFailed(rec, error, key) ==
    LET r == [rec EXCEPT !.primary = error, !.fbKey = key]
    IN  IF key # "" THEN callGemini(r, key, "fallback") ELSE Throws(r, error)

\* an adapter that turns to the fallback before having tried LM Studio
callLMStudioFallbackFirst(rec, key) ==
    callGemini([rec EXCEPT !.adapters = @ + 1, !.target = "lmstudio"], key, "fallback")

\* callLMStudio up to its axios.post (lines 186-228)
callLMStudio(rec, key) ==
    LET r == [rec EXCEPT !.adapters = @ + 1, !.target = "lmstudio",
                           !.stage = "primary"]
    IN  IF ~SupportedOperation(rec.req)
        THEN LMStudioFailed(r, UnsupportedOperation(rec.req.operation), key)
        ELSE [r EXCEPT !.pc = "net", !.nets = @ + 1]

\* provider selection of processRequest (lines 165-172)
SelectProvider(rec, prov, key) ==
    LET r == [rec EXCEPT !.cfgKey = key]
    IN  IF prov = "local" \/ prov = "lmstudio"
        THEN callLMStudio(r, key)
        ELSE callGemini(r, key, "primary")

\* no caller is about to read an answer: a settled call is read by its caller
\* before anything else happens
NoDone ==
    /\ \A s \in Slots : calls[s].pc # "done"
    /\ \A f \in DOMAIN fcalls : fcalls[f].pc # "done"

\* a continuation of the call is in the microtask queue: the one after
\* await consume(), or the one that takes the rejection of the adapter on
Queued(rec) == rec.pc \in {"admitted", "entered"}

QueuePlace(rec) == IF rec.pc = "admitted" THEN rec.ticket ELSE rec.turn

\* no continuation of processRequest is queued in the main process: the
\* queue is emptied before the event loop turns to a timer, to an answer of
\* the network or to a message of the renderer
NoneQueued == \A s \in Slots : ~Queued(calls[s])

\* the place behind the continuations that are queued
NextTicket ==
    1 + Cardinality({s \in Slots : Queued(calls[s])})

\* the continuation of call s is at the head of the microtask queue
HeadOfQueue(s) ==
    \A r \in Slots : Queued(calls[r]) => QueuePlace(calls[r]) >= QueuePlace(calls[s])

\* the head of the queue has been taken: the others move up
MovesUp(rec) ==
    IF rec.pc = "admitted" THEN [rec EXCEPT !.ticket = @ - 1]
    ELSE IF rec.pc = "entered" THEN [rec EXCEPT !.turn = @ - 1]
    ELSE rec

\* a rejection that is on its way goes to the end of the queue
Requeued(rec) ==
    IF rec.pc = "entered" THEN [rec EXCEPT !.turn = NextTicket - 1] ELSE rec

\* await this.rateLimiter.consume() when consume() has returned at once (lines
\* 42-44, 163): the call made by a caller in the main process is suspended
\* and its continuation queued, and the caller goes on; the call made by an
\* IPC handler, after which nothing runs in that turn of the event loop, goes
\* on to select the provider
Awaited(rec, prov, key) ==
    IF rec.origin = 0
    THEN [rec EXCEPT !.pc = "admitted", !.ticket = NextTicket]
    ELSE Catches(SelectProvider(rec, prov, key))

FreeSlot(s) ==
    /\ calls[s].pc = "idle"
    /\ \A r \in 1..(s - 1) : calls[r].pc # "idle"
    /\ NoDone

\* processRequest from its first line to its first suspension (lines 150-163):
\* cache lookup, then consume()
processRequest(s, rec) ==
    LET cacheKey == generateCacheKey(rec.req)
        r == [rec EXCEPT !.looked = TRUE, !.entryAge = EntryAge(cache, cacheKey, now)]
        cachedResponse == cacheGet(cache, cacheKey, now)
        rl == Refill(tokens, lastRefill, now)
    IN  /\ cache' = CacheAfterGet(cache, cacheKey, now)
        /\ IF cachedResponse.found
           THEN /\ calls' = [calls EXCEPT ![s] =
                        Returns([r EXCEPT !.hit = TRUE], cachedResponse.value)]
                /\ UNCHANGED <<tokens, lastRefill>>
           ELSE /\ lastRefill' = rl.last
                /\ IF rl.tokens >= 1
                   THEN /\ tokens' = rl.tokens - 1
                        /\ calls' = [calls EXCEPT ![s] =
                              Awaited([r EXCEPT !.debited = @ + 1],
                                      provider, geminiKey)]
                   ELSE /\ tokens' = rl.tokens
                        /\ calls' = [calls EXCEPT ![s] =
                              [r EXCEPT !.pc = "waiting",
                                        !.wakeAt = now + WaitTime(1, rl.tokens)]]

\* LLMService.checkGrammar(text, language), on behalf of origin
checkGrammar(s, text, language, origin) ==
    LET rec == NewCall("checkGrammar",
                       MkRequest(GrammarCheck, EmptyStr,
                                 DefaultArg(language, <<"en">>), text), origin)
    IN  IF text = EmptyStr
        THEN /\ calls' = [calls EXCEPT ![s] = Caught(rec, InvalidTextInput)]
             /\ UNCHANGED <<cache, tokens, lastRefill>>
        ELSE processRequest(s, rec)

\* LLMService.rephraseText(text, style), on behalf of origin
rephraseText(s, text, style, origin) ==
    LET rec == NewCall("rephraseText",
                       MkRequest(Rephrase, DefaultArg(style, <<"formal">>),
                                 EmptyStr, text), origin)
    IN  IF text = EmptyStr
        THEN /\ calls' = [calls EXCEPT ![s] = Caught(rec, InvalidTextInput)]
             /\ UNCHANGED <<cache, tokens, lastRefill>>
        ELSE processRequest(s, rec)

\* a caller in the main process calls checkGrammar
callCheckGrammar(s, text, language) ==
    /\ FreeSlot(s)
    /\ started < MaxCalls
    /\ started' = started + 1
    /\ checkGrammar(s, text, language, 0)
    /\ UNCHANGED <<now, provider, geminiKey, lastReturn, rendererVars, parseVars, unitVars>>

\* a caller in the main process calls rephraseText
callRephraseText(s, text, style) ==
    /\ FreeSlot(s)
    /\ started < MaxCalls
    /\ started' = started + 1
    /\ rephraseText(s, text, style, 0)
    /\ UNCHANGED <<now, provider, geminiKey, lastReturn, rendererVars, parseVars, unitVars>>

\* a caller in the main process calls processRequest(request)
callProcessRequest(s, request) ==
    /\ FreeSlot(s)
    /\ started < MaxCalls
    /\ started' = started + 1
    /\ processRequest(s, NewCall("processRequest", request, 0))
    /\ UNCHANGED <<now, provider, geminiKey, lastReturn, rendererVars, parseVars, unitVars>>

\* the continuation of processRequest after await consume() (lines 163-172):
\* the provider and the key are read now and the adapter runs to its first
\* suspension or to its rejection, which processRequest catches in a later
\* turn; the continuations run in the order in which they were queued
processRequestResumes(s) ==
    /\ calls[s].pc = "admitted"
    /\ HeadOfQueue(s)
    /\ calls' = [r \in Slots |->
                   IF r = s
                   THEN Requeued(SelectProvider([calls[s] EXCEPT !.ticket = 0],
                                                provider, geminiKey))
                   ELSE MovesUp(calls[r])]
    /\ UNCHANGED <<now, provider, geminiKey, cache, tokens, lastRefill, started,
                   lastReturn, rendererVars, parseVars, unitVars>>

\* the rejection of the adapter that call s awaits moves on by a turn of the
\* microtask queue; at its last turn the catch clause of processRequest runs
\* and the call returns what handleError makes of the error (lines 178-181)
processRequestCatches(s) ==
    /\ calls[s].pc = "entered"
    /\ HeadOfQueue(s)
    /\ calls' = [r \in Slots |->
                   IF r = s
                   THEN IF calls[s].hops > 1
                        THEN Requeued([calls[s] EXCEPT !.hops = @ - 1])
                        ELSE Catches(calls[s])
                   ELSE MovesUp(calls[r])]
    /\ UNCHANGED <<now, provider, geminiKey, cache, tokens, lastRefill, started,
                   lastReturn, rendererVars, parseVars, unitVars>>

\* the setTimeout of consume() fires (lines 49-53), then the adapter is entered
TokensAccrued(s) ==
    LET rl == Refill(tokens, lastRefill, now)
    IN  /\ NoDone
        /\ NoneQueued
        /\ calls[s].pc = "waiting"
        /\ now >= calls[s].wakeAt
        /\ tokens' = rl.tokens - 1
        /\ lastRefill' = rl.last
        /\ calls' = [calls EXCEPT ![s] =
              Catches(SelectProvider([calls[s] EXCEPT !.debited = @ + 1],
                                     provider, geminiKey))]
        /\ UNCHANGED <<now, provider, geminiKey, cache, started, lastReturn,
                       rendererVars, parseVars, unitVars>>

\* the axios.post of call s settles with outcome: the rest of the adapter, the
\* fallback decision, cacheResponse and the return of processRequest
AdapterSettles(s, outcome) ==
    LET rec == [calls[s] EXCEPT !.outcome = outcome]
        who == IF rec.target = "lmstudio" THEN "LM Studio" ELSE "Gemini"
        res == AdapterResult(outcome, rec.req, who)
    IN  /\ NoDone
        /\ NoneQueued
        /\ calls[s].pc = "net"
        /\ IF res.ok
           THEN /\ cache' = CacheAfterSet(cache, generateCacheKey(rec.req),
                                          res.response, now, rec.req)
                /\ calls' = [calls EXCEPT ![s] =
                      Returns([rec EXCEPT !.wrote = TRUE, !.last = NoErr], res.response)]
           ELSE /\ cache' = cache
                /\ calls' = [calls EXCEPT ![s] =
                      IF rec.target = "lmstudio"
                      THEN Catches(LMStudioFailed(rec, res.error, geminiKey))
                      ELSE Caught(rec, res.error)]
        /\ UNCHANGED <<now, provider, geminiKey, tokens, lastReturn, lastRefill,
                       started, rendererVars, parseVars, unitVars>>

\* a caller in the main process calls cacheResponse(request, response) (lines
\* 359-363), a method that processRequest calls and that is not private
cacheResponse(request, response) ==
    /\ NoDone
    /\ started < MaxCalls
    /\ started' = started + 1
    /\ cache' = CacheAfterSet(cache, generateCacheKey(request), response, now, request)
    /\ UNCHANGED <<now, provider, geminiKey, tokens, lastRefill, calls,
                   lastReturn, rendererVars, parseVars, unitVars>>

\* what is remembered of the call that returned last
Returned(rec) ==
    LET ok == ~rec.rejected /\ ~HasError(rec.result)
    IN  [req |-> rec.req, ok |-> ok, target |-> IF ok THEN rec.target ELSE "",
         result |-> IF ok THEN rec.result ELSE NoResponse,
         adapters |-> IF ok THEN rec.adapters ELSE 0,
         fellBack |-> ok /\ rec.primary # NoErr]

NoReturn ==
    [req |-> NoRequest, ok |-> FALSE, target |-> "", result |-> NoResponse,
     adapters |-> 0, fellBack |-> FALSE]

\* the caller in the main process has its answer; the slot is free again
Return(s) ==
    /\ NoneQueued
    /\ calls[s].pc = "done"
    /\ calls[s].origin = 0
    /\ calls' = [calls EXCEPT ![s] = Idle]
    /\ lastReturn' = Returned(calls[s])
    /\ UNCHANGED <<now, provider, geminiKey, cache, tokens, lastRefill, started,
                   rendererVars, parseVars, unitVars>>

\* an initialize that also empties the cache
initializeClearsCache(prov, hasGemini, key) ==
    /\ NoDone
    /\ provider' = prov
    /\ geminiKey' = IF hasGemini THEN key ELSE geminiKey
    /\ <<provider', geminiKey'>> # <<provider, geminiKey>>
    /\ cache' = <<>>
    /\ UNCHANGED <<now, tokens, lastRefill, calls, started, lastReturn,
                   rendererVars, parseVars, unitVars>>

\* LLMService.initialize(provider, apiKeys); apiKeys names gemini or not
initialize(prov, hasGemini, key) ==
    /\ NoDone
    /\ provider' = prov
    /\ geminiKey' = IF hasGemini THEN key ELSE geminiKey
    /\ <<provider', geminiKey'>> # <<provider, geminiKey>>
    /\ UNCHANGED <<now, cache, tokens, lastRefill, calls, started, lastReturn,
                   rendererVars, parseVars, unitVars>>

\* time passes: the time of one token, or the cache's time to live
Advance(d) ==
    /\ NoDone
    /\ NoneQueued
    /\ StepsTo(now + d) <= MaxTicks
    /\ now' = now + d
    /\ UNCHANGED <<provider, geminiKey, cache, tokens, lastRefill, calls, started,
                   lastReturn, rendererVars, parseVars, unitVars>>

-----------------------------------------------------------------------------
(* IPCBridge: the validation of the channel and of the data, and the call of *)
(* the method that the preload script exposes as window.electronAPI          *)

\* some of the values of IpcChannels
IpcChannels ==
    {"ai:check-grammar", "ai:rephrase-text", "settings:save", "window:focused"}

\* getMethodName (lines 142-173), on these channels: the name of the table,
\* and for a channel the table does not hold the name made of its two parts
getMethodName(channel) ==
    CASE channel = "ai:check-grammar" -> "aiCheckGrammar"
      [] channel = "ai:rephrase-text" -> "aiRephraseText"
      [] channel = "settings:save" -> "settingsSave"
      [] channel = "window:focused" -> "windowFocused"
      [] OTHER -> channel

\* window.electronAPI: not there, or what one of the preload scripts exposes
\* (part_001 lines 8-26, part_002 lines 8-48, part_004 lines 3-8), which is
\* the set of the names of its functions
ElectronApis == {"none", "part_001", "part_002", "part_004"}

ExposedMethods(api) ==
    CASE api = "part_001" ->
           {"fileNew", "fileOpen", "fileSave", "fileSaveAs", "getRecentFiles",
            "checkGrammar", "rephraseText", "getSettings", "saveSettings", "on"}
      [] api = "part_002" ->
           {"fileNew", "fileOpen", "fileSave", "fileSaveAs", "getRecentFiles",
            "aiCheckGrammar", "aiRephraseText", "settingsGet", "settingsSave",
            "uiShowSettings", "uiShowDocumentation", "viewToggleTheme",
            "viewZoomIn", "viewZoomOut", "viewZoomReset", "editUndo", "editRedo",
            "editCut", "editCopy", "editPaste", "editSelectAll", "editFind",
            "editReplace", "on"}
      [] api = "part_004" -> {"minimize", "maximize", "close"}
      [] OTHER -> {}

\* data: undefined, null, a string, or an object, which is the set of its own
\* enumerable properties, each a pair of a key and a value
UndefinedData == [kind |-> "undefined", props |-> {}]

NullData == [kind |-> "null", props |-> {}]

StringData == [kind |-> "string", props |-> {}]

Obj(props) == [kind |-> "object", props |-> props]

DataKeys == {"text", "options", "__proto__", "constructor"}

UnsafeKeys == {"__proto__", "constructor"}

\* the values nested up to depth d: objects of one property, and of a text
\* and one more property
RECURSIVE DataUpTo(_)
DataUpTo(d) ==
    IF d = 0 THEN {StringData, NullData}
    ELSE LET inner == DataUpTo(d - 1)
         IN  inner
             \cup { Obj({<<k, v>>}) : k \in DataKeys, v \in inner }
             \cup { Obj({<<"text", StringData>>, <<k, v>>}) :
                      k \in DataKeys \ {"text"}, v \in inner }

NoIpc == [channel |-> "", data |-> UndefinedData, method |-> "", api |-> "none"]

NotInvoked == [state |-> "pending", apiCalls |-> 0, error |-> <<>>]

\* validateChannel (lines 107-116)
validateChannel(channel) == channel # "" /\ channel \in IpcChannels

\* a validation that looks at the keys of data itself only
validateDataShallow(data) ==
    ~(data.kind = "object" /\ \E p \in data.props : p[1] \in UnsafeKeys)

\* validateData (lines 120-139)
RECURSIVE validateData(_)
validateData(data) ==
    IF data.kind = "object"
    THEN IF \E p \in data.props : p[1] \in UnsafeKeys
         THEN FALSE
         ELSE \A p \in data.props : validateData(p[2])
    ELSE TRUE

\* the checks that invoke and send make before they touch window.electronAPI:
\* the message of the error they find, <<>> when they find none
Refusal(in) ==
    IF ~validateChannel(in.channel) THEN <<"Invalid IPC channel:", in.channel>>
    ELSE IF in.data # UndefinedData /\ ~validateData(in.data)
         THEN <<"Invalid IPC data">>
    ELSE <<>>

\* what invoke and send find of window.electronAPI (lines 19-29, 49-59): the
\* message of the error, <<>> when the function of the channel is there
Unavailable(in) ==
    IF in.api = "none" THEN <<"Electron API not available">>
    ELSE IF getMethodName(in.channel) \notin ExposedMethods(in.api)
         THEN <<"IPC method not available:", getMethodName(in.channel)>>
    ELSE <<>>

\* IPCBridge.invoke (lines 38-65) up to the call of the exposed method
invoke ==
    /\ ipcIn.method = "invoke"
    /\ ipcOut.state = "pending"
    /\ ipcOut' =
          IF Refusal(ipcIn) # <<>>
          THEN [state |-> "rejected", apiCalls |-> 0, error |-> Refusal(ipcIn)]
          ELSE IF Unavailable(ipcIn) # <<>>
          THEN [state |-> "rejected", apiCalls |-> 0, error |-> Unavailable(ipcIn)]
          ELSE [state |-> "awaiting", apiCalls |-> 1, error |-> <<>>]
    /\ UNCHANGED <<now, started, svcVars, rendererVars, parseVars, consumers, dcalls, ipcIn>>

\* the promise of the exposed method settles (line 57, lines 61-64)
invokeSettles(ok) ==
    /\ ipcOut.state = "awaiting"
    /\ ipcOut' = [ipcOut EXCEPT !.state = IF ok THEN "resolved" ELSE "rejected",
                                !.error = IF ok THEN <<>> ELSE <<"handler failed">>]
    /\ UNCHANGED <<now, started, svcVars, rendererVars, parseVars, consumers, dcalls, ipcIn>>

\* IPCBridge.send (lines 6-34)
send ==
    /\ ipcIn.method = "send"
    /\ ipcOut.state = "pending"
    /\ ipcOut' =
          IF Refusal(ipcIn) # <<>>
          THEN [state |-> "returned", apiCalls |-> 0, error |-> Refusal(ipcIn)]
          ELSE IF Unavailable(ipcIn) # <<>>
          THEN [state |-> "returned", apiCalls |-> 0, error |-> Unavailable(ipcIn)]
          ELSE [state |-> "returned", apiCalls |-> 1, error |-> <<>>]
    /\ UNCHANGED <<now, started, svcVars, rendererVars, parseVars, consumers, dcalls, ipcIn>>

-----------------------------------------------------------------------------
(* LLMProcessor, the renderer's facade: its own cache, the Debouncer, the    *)
(* offline heuristic, and the IPC round trip to the handlers of the main     *)
(* process                                                                   *)

FSlots == 1..MaxCalls

\* a renderer call that has not been made; order is the place of its answer
\* among the answers on their way to the renderer, 0 when it is not
NoFCall ==
    [pc |-> "idle", op |-> "", text |-> EmptyStr, opt |-> EmptyStr,
     key |-> EmptyStr, slot |-> 0, order |-> 0, fromCache |-> FALSE,
     offline |-> FALSE, result |-> NoResponse, rejected |-> FALSE]

NoTimer == [call |-> 0, at |-> 0, armed |-> FALSE]

Max(a, b) == IF a >= b THEN a ELSE b

\* `${language || 'en'}`, `${style || 'formal'}`
OrElse(s, default) == IF s \in {EmptyStr, UndefinedArg} THEN default ELSE s

\* const cacheKey = `grammar:${language || 'en'}:${text}`
GrammarKey(text, language) ==
    <<"grammar", ":">> \o OrElse(language, <<"en">>) \o <<":">> \o text

\* const cacheKey = `rephrase:${style || 'formal'}:${text}`
RephraseKey(text, style) ==
    <<"rephrase", ":">> \o OrElse(style, <<"formal">>) \o <<":">> \o text

\* text.split(/\s+/): the words between runs of blanks, the empty words at
\* the ends included
RECURSIVE SplitFrom(_, _, _, _)
SplitFrom(s, i, word, words) ==
    IF i > Len(s) THEN Append(words, word)
    ELSE IF s[i] # " " THEN SplitFrom(s, i + 1, Append(word, s[i]), words)
    ELSE IF i > 1 /\ s[i - 1] = " " THEN SplitFrom(s, i + 1, word, words)
    ELSE SplitFrom(s, i + 1, <<>>, Append(words, word))

SplitWords(text) == SplitFrom(text, 1, <<>>, <<>>)

\* word.toLowerCase(), on the tokens of the model
ToLowerCase(tok) == IF tok = "Teh" THEN "teh" ELSE tok

commonMisspellings ==
    [teh |-> "the", adn |-> "and", waht |-> "what", thier |-> "their",
     recieve |-> "receive", alot |-> "a lot", seperate |-> "separate",
     definately |-> "definitely", accomodate |-> "accommodate",
     occured |-> "occurred", untill |-> "until", wierd |-> "weird"]

\* the lower-case names every object literal inherits from Object.prototype
PrototypeKeys == {"constructor", "__proto__"}

\* commonMisspellings[key]: the correction of the table, for an inherited
\* name the inherited value (the function Object, the prototype object, which
\* are not strings), and undefined for any other key
Lookup(key) ==
    IF key \in DOMAIN commonMisspellings THEN commonMisspellings[key]
    ELSE IF key = "constructor" THEN "function Object() { [native code] }"
    ELSE IF key \in PrototypeKeys THEN "[object Object]"
    ELSE Undefined

\* .filter(word => commonMisspellings[word.toLowerCase()]): a word of one
\* token whose lookup is truthy
IsMisspelled(word) ==
    Len(word) = 1 /\ Lookup(ToLowerCase(word[1])) \notin {Undefined, ""}

findMisspelledWords(words) ==
    LET found == SelectSeq(words, IsMisspelled)
    IN  [i \in DOMAIN found |->
            [original |-> found[i][1],
             suggestion |-> Lookup(ToLowerCase(found[i][1]))]]

handleOfflineMode(text) ==
    LET misspelledWords == findMisspelledWords(SplitWords(text))
        suggestions == [i \in DOMAIN misspelledWords |->
                          [text |-> misspelledWords[i].suggestion,
                           confidence |-> OfflineConfidence,
                           type |-> "spelling"]]
    IN  [original |-> text,
         suggestions |-> suggestions,
         error |-> IF Len(suggestions) = 0
                   THEN <<"No", "issues", "found", "in", "offline", "mode">>
                   ELSE <<>>]

\* Debouncer.debounce (lines 16-38): the pending timer, if any, is cleared and
\* its promise is never settled; a new one is set
Debounce(f, rec) ==
    /\ timer' = [call |-> f,
                 at |-> now + Max(0, DebounceDelay - (now - lastCall)),
                 armed |-> TRUE]
    /\ fcalls' = [g \in FSlots |->
                    IF g = f THEN [rec EXCEPT !.pc = "debouncing"]
                    ELSE IF timer.armed /\ g = timer.call
                         THEN [fcalls[g] EXCEPT !.pc = "superseded"]
                    ELSE fcalls[g]]

\* checkGrammar / rephraseText of LLMProcessor up to the debounce
\* (lines 82-95, 122-135)
FacadeCall(op, text, opt, key) ==
    LET f == started + 1
        rec == [NoFCall EXCEPT !.op = op, !.text = text, !.opt = opt, !.key = key]
        cachedResponse == cacheGet(fcache, key, now)
    IN  /\ NoDone
        /\ started < MaxCalls
        /\ started' = started + 1
        /\ fcache' = CacheAfterGet(fcache, key, now)
        /\ IF cachedResponse.found
           THEN /\ fcalls' = [fcalls EXCEPT ![f] =
                        [rec EXCEPT !.pc = "done", !.fromCache = TRUE,
                                    !.result = cachedResponse.value]]
                /\ timer' = timer
           ELSE Debounce(f, rec)
        /\ UNCHANGED <<now, online, lastCall, svcVars, parseVars, unitVars>>

\* a caller in the renderer calls getCachedResponse(key) (lines 207-209), a
\* method that checkGrammar and rephraseText call and that is not private:
\* the entry becomes the most recently used, and is deleted when it is stale
getCachedResponse(key) ==
    /\ NoDone
    /\ started < MaxCalls
    /\ started' = started + 1
    /\ fcache' = CacheAfterGet(fcache, key, now)
    /\ UNCHANGED <<now, online, timer, lastCall, fcalls, svcVars, parseVars, unitVars>>

\* LLMProcessor.checkGrammar(text, language)
LLMProcessor_checkGrammar(text, language) ==
    FacadeCall("checkGrammar", text, language, GrammarKey(text, language))

\* LLMProcessor.rephraseText(text, style)
LLMProcessor_rephraseText(text, style) ==
    FacadeCall("rephraseText", text, style, RephraseKey(text, style))

\* one call of checkGrammar / rephraseText among those of a batch, on the
\* renderer state st reached by the calls before it: as FacadeCall
BatchCall(st, op, text, opt) ==
    LET f == st.started + 1
        key == IF op = "checkGrammar" THEN GrammarKey(text, opt)
               ELSE RephraseKey(text, opt)
        rec == [NoFCall EXCEPT !.op = op, !.text = text, !.opt = opt, !.key = key]
        cachedResponse == cacheGet(st.fcache, key, now)
    IN  [started |-> f,
         fcache |-> CacheAfterGet(st.fcache, key, now),
         timer |-> IF cachedResponse.found THEN st.timer
                   ELSE [call |-> f,
                         at |-> now + Max(0, DebounceDelay - (now - lastCall)),
                         armed |-> TRUE],
         fcalls |-> IF cachedResponse.found
                    THEN [st.fcalls EXCEPT ![f] =
                            [rec EXCEPT !.pc = "done", !.fromCache = TRUE,
                                        !.result = cachedResponse.value]]
                    ELSE [g \in FSlots |->
                            IF g = f THEN [rec EXCEPT !.pc = "debouncing"]
                            ELSE IF st.timer.armed /\ g = st.timer.call
                                 THEN [st.fcalls[g] EXCEPT !.pc = "superseded"]
                            ELSE st.fcalls[g]]]

\* texts.map(text => this.checkGrammar(text, ...)): the calls are made one
\* after the other, before any timer can fire
RECURSIVE BatchCalls(_, _, _, _)
BatchCalls(st, op, texts, opt) ==
    IF texts = <<>> THEN st
    ELSE BatchCalls(BatchCall(st, op, Head(texts), opt), op, Tail(texts), opt)

\* LLMProcessor.processBatch(texts, operation) up to Promise.all (lines
\* 162-174), no options given, so that options?.language is undefined; the
\* batch returns when each of its calls has returned
processBatch(texts, op) ==
    LET st == BatchCalls([started |-> started, fcache |-> fcache, timer |-> timer,
                          fcalls |-> fcalls], op, texts, UndefinedArg)
    IN  /\ NoDone
        /\ started + Len(texts) <= MaxCalls
        /\ started' = st.started
        /\ fcache' = st.fcache
        /\ timer' = st.timer
        /\ fcalls' = st.fcalls
        /\ UNCHANGED <<now, online, lastCall, svcVars, parseVars, unitVars>>

\* a timer callback that stores the answer of the offline heuristic
TimerFiresCachesOffline ==
    LET f == timer.call
        rec == fcalls[f]
        response == handleOfflineMode(rec.text)
    IN  /\ NoDone
        /\ timer.armed
        /\ now >= timer.at
        /\ lastCall' = now
        /\ timer' = [timer EXCEPT !.armed = FALSE]
        /\ IF ~online
           THEN /\ fcalls' = [fcalls EXCEPT ![f] =
                        [rec EXCEPT !.pc = "done", !.offline = TRUE,
                                    !.result = response]]
                /\ fcache' = CacheAfterSet(fcache, rec.key, response, now, NoRequest)
           ELSE /\ fcalls' = [fcalls EXCEPT ![f] = [rec EXCEPT !.pc = "sent"]]
                /\ fcache' = fcache
        /\ UNCHANGED <<now, online, started, svcVars, parseVars, unitVars>>

\* the debounce timer fires (Debouncer lines 28-36) and runs the request
\* (lines 96-105): offline, the heuristic answers; online, IPCBridge.invoke
\* calls the aiCheckGrammar / aiRephraseText that the preload script of
\* part_002 exposes, which posts { text, language } or { text, style } to the
\* main process
TimerFires ==
    LET f == timer.call
        rec == fcalls[f]
    IN  /\ NoDone
        /\ timer.armed
        /\ now >= timer.at
        /\ lastCall' = now
        /\ timer' = [timer EXCEPT !.armed = FALSE]
        /\ fcalls' = [fcalls EXCEPT ![f] =
                IF ~online
                THEN [rec EXCEPT !.pc = "done", !.offline = TRUE,
                                 !.result = handleOfflineMode(rec.text)]
                ELSE [rec EXCEPT !.pc = "sent"]]
        /\ UNCHANGED <<now, online, fcache, started, svcVars, parseVars, unitVars>>

\* the place behind the answers that are on their way to the renderer
NextOrder ==
    1 + Cardinality({f \in FSlots : fcalls[f].pc = "reply"})

\* the answer to renderer call f is on its way
Replied(rec, response, rejected) ==
    [rec EXCEPT !.pc = "reply", !.slot = 0, !.order = NextOrder,
                !.result = response, !.rejected = rejected]

\* the message of renderer call f reaches the main process and the handler
\* of registerLLMHandlers runs (part_003 lines 123-155): it throws on a
\* missing text, and the rejection goes back; else it calls LLMService with
\* data.language or data.style as they came. Messages arrive in the order
\* in which they were sent
HandlerRuns(f) ==
    LET rec == fcalls[f]
    IN  /\ NoDone
        /\ NoneQueued
        /\ rec.pc = "sent"
        /\ \A g \in 1..(f - 1) : fcalls[g].pc # "sent"
        /\ IF rec.text = EmptyStr
           THEN /\ fcalls' = [fcalls EXCEPT ![f] = Replied(rec, NoResponse, TRUE)]
                /\ UNCHANGED <<cache, tokens, lastRefill, calls>>
           ELSE \E s \in Slots :
                  /\ FreeSlot(s)
                  /\ fcalls' = [fcalls EXCEPT ![f] =
                          [rec EXCEPT !.pc = "ipc", !.slot = s]]
                  /\ IF rec.op = "checkGrammar"
                     THEN checkGrammar(s, rec.text, rec.opt, f)
                     ELSE rephraseText(s, rec.text, rec.opt, f)
        /\ UNCHANGED <<now, online, fcache, timer, lastCall, provider, geminiKey,
                       started, lastReturn, parseVars, unitVars>>

\* the call that the handler made has returned, and with it the handler: the
\* answer is sent to the renderer
HandlerReplies(s) ==
    LET f == calls[s].origin
    IN  /\ calls[s].pc = "done"
        /\ f # 0
        /\ fcalls' = [fcalls EXCEPT ![f] =
                Replied(fcalls[f], calls[s].result, calls[s].rejected)]
        /\ calls' = [calls EXCEPT ![s] = Idle]
        /\ lastReturn' = Returned(calls[s])
        /\ UNCHANGED <<now, online, fcache, timer, lastCall, provider, geminiKey,
                       cache, tokens, lastRefill, started, parseVars, unitVars>>

\* A Debouncer(DebounceDelay) on its own, wrapping a function that settles
\* whenever it is run: dcalls[i] is the i-th call of debounce
NewDebounced == [arrived |-> now, pc |-> "pending", ranAt |-> 0, settled |-> FALSE]

\* debounce(func) (lines 16-38): clearTimeout on the pending timer, whose
\* promise is left as it is, and setTimeout for the new call
debounce ==
    LET i == Len(dcalls) + 1
    IN  /\ i <= MaxDebounced
        /\ dcalls' = Append([j \in DOMAIN dcalls |->
                               IF timer.armed /\ j = timer.call
                               THEN [dcalls[j] EXCEPT !.pc = "superseded"]
                               ELSE dcalls[j]],
                            NewDebounced)
        /\ timer' = [call |-> i,
                     at |-> now + Max(0, DebounceDelay - (now - lastCall)),
                     armed |-> TRUE]
        /\ UNCHANGED <<now, started, svcVars, online, fcache, lastCall, fcalls,
                       parseVars, consumers, bridgeVars>>

\* the timer callback (lines 28-30): lastCall = Date.now(), func is called
debounceTimeout ==
    /\ timer.armed
    /\ now >= timer.at
    /\ lastCall' = now
    /\ timer' = [timer EXCEPT !.armed = FALSE]
    /\ dcalls' = [dcalls EXCEPT ![timer.call] =
                     [@ EXCEPT !.pc = "running", !.ranAt = now]]
    /\ UNCHANGED <<now, started, svcVars, online, fcache, fcalls, parseVars, consumers, bridgeVars>>

\* func settles and the callback resolves or rejects the promise of its own
\* call (lines 31-35)
debounceSettles(i) ==
    /\ i \in DOMAIN dcalls
    /\ dcalls[i].pc = "running"
    /\ dcalls' = [dcalls EXCEPT ![i] = [@ EXCEPT !.pc = "ran", !.settled = TRUE]]
    /\ UNCHANGED <<now, started, svcVars, rendererVars, parseVars, consumers, bridgeVars>>

\* the clock of the Debouncer on its own advances by half a delay, as long as
\* calls may come or a timer is pending
DebounceStep == DebounceDelay \div 2

DebounceHorizon == MaxDebounced * DebounceDelay

DebounceTick ==
    /\ \/ now < DebounceHorizon
       \/ timer.armed /\ timer.at > now
    /\ now' = now + DebounceStep
    /\ UNCHANGED <<started, svcVars, rendererVars, parseVars, unitVars>>

\* a response that is cached although it carries an error
ShouldCacheAnything(response) == TRUE

\* if (response && !response.error)
ShouldCache(response) == ~HasError(response)

\* the answer of the main process arrives in the renderer (lines 102-112),
\* the answers in the order in which they were sent: a rejection is passed
\* on; a response is cached when it carries no error, and returned
IpcReturns(f) ==
    LET rec == fcalls[f]
    IN  /\ NoDone
        /\ rec.pc = "reply"
        /\ \A g \in FSlots : fcalls[g].pc = "reply" => fcalls[g].order >= rec.order
        /\ fcache' = IF ~rec.rejected /\ ShouldCache(rec.result)
                     THEN CacheAfterSet(fcache, rec.key, rec.result, now, NoRequest)
                     ELSE fcache
        /\ fcalls' = [g \in FSlots |->
                        IF g = f THEN [rec EXCEPT !.pc = "done", !.order = 0]
                        ELSE IF fcalls[g].pc = "reply"
                             THEN [fcalls[g] EXCEPT !.order = @ - 1]
                        ELSE fcalls[g]]
        /\ UNCHANGED <<now, online, timer, lastCall, started, svcVars, parseVars,
                       unitVars>>

\* the component that called the facade has its answer
FacadeReturn(f) ==
    /\ fcalls[f].pc = "done"
    /\ fcalls' = [fcalls EXCEPT ![f] = [NoFCall EXCEPT !.pc = "returned"]]
    /\ UNCHANGED <<now, online, fcache, timer, lastCall, started, svcVars, parseVars, unitVars>>

\* the same, with a note of what was asked and of who answered
FacadeReturnNoted(f) ==
    /\ fcalls[f].pc = "done"
    /\ fcalls' = [fcalls EXCEPT ![f] =
                    [NoFCall EXCEPT !.pc = "returned", !.key = fcalls[f].key,
                                    !.offline = fcalls[f].offline]]
    /\ UNCHANGED <<now, online, fcache, timer, lastCall, started, svcVars, parseVars, unitVars>>

\* navigator.onLine changes
ConnectivityChanges ==
    /\ NoDone
    /\ online' = ~online
    /\ UNCHANGED <<now, fcache, timer, lastCall, fcalls, started, svcVars, parseVars, unitVars>>

-----------------------------------------------------------------------------

Init ==
    /\ now = 0
    /\ provider \in Providers
    /\ geminiKey \in Keys
    /\ cache = <<>>
    /\ tokens \in {MaxTokens, 0}
    /\ lastRefill = 0
    /\ calls = [s \in Slots |-> Idle]
    /\ started = 0
    /\ lastReturn = NoReturn
    /\ online = TRUE
    /\ fcache = <<>>
    /\ timer = NoTimer
    /\ lastCall = Epoch
    /\ fcalls = [f \in FSlots |-> NoFCall]
    /\ parseIn = NoText
    /\ parseOut = NotParsed
    /\ jsonEngine \in JsonEngines
    /\ consumers = [c \in Consumers |-> NoConsume]
    /\ dcalls = <<>>
    /\ ipcIn = NoIpc
    /\ ipcOut = NotInvoked

\* Spec: one caller in the main process, who awaits each call before issuing
\* the next, while the settings and the clock change at any moment
OneCaller == {1}

Next ==
    \/ \E s \in OneCaller, t \in Texts : callCheckGrammar(s, t, <<"en">>)
    \/ \E s \in OneCaller, t \in Texts : callRephraseText(s, t, <<"formal">>)
    \/ \E s \in OneCaller, r \in DirectRequests : callProcessRequest(s, r)
    \/ \E s \in OneCaller : processRequestResumes(s)
    \/ \E s \in OneCaller : processRequestCatches(s)
    \/ \E s \in OneCaller : TokensAccrued(s)
    \/ \E s \in OneCaller, o \in NetOutcomes : AdapterSettles(s, o)
    \/ \E s \in OneCaller : Return(s)
    \/ \E p \in Providers, h \in BOOLEAN, k \in Keys : initialize(p, h, k)
    \/ \E d \in {TokenMs, CacheTtl} : Advance(d)

Spec == Init /\ [][Next]_vars

\* SpecFacade: the renderer calls the facade, at any pace; every call of
\* LLMService comes from the IPC handlers
FacadeOutcomes ==
    { [kind |-> "ok", text |-> GoodPayload, error |-> NoErr],
      [kind |-> "fail", text |-> EmptyStr, error |-> TimeoutExceeded] }

NextFacade ==
    \/ \E t \in Texts : LLMProcessor_checkGrammar(t, UndefinedArg)
    \/ \E t \in Texts : LLMProcessor_rephraseText(t, UndefinedArg)
    \/ TimerFires
    \/ \E f \in FSlots : HandlerRuns(f)
    \/ \E s \in Slots : TokensAccrued(s)
    \/ \E s \in Slots, o \in FacadeOutcomes : AdapterSettles(s, o)
    \/ \E s \in Slots : HandlerReplies(s)
    \/ \E f \in FSlots : IpcReturns(f)
    \/ \E f \in FSlots : FacadeReturn(f)
    \/ ConnectivityChanges
    \/ \E d \in {TokenMs, CacheTtl} : Advance(d)

SpecFacade == Init /\ [][NextFacade]_vars

\* SpecRetry: as SpecFacade, with callers in the main process who call
\* processRequest too, from the moment at which one processRequest for
\* RetryRequest has missed the cache, has taken its token and awaits the
\* answer to its axios.post, under the provider selected at that moment, which
\* initialize may have replaced since; started counts the calls made from
\* then on
RetryRequest == MkRequest(GrammarCheck, EmptyStr, <<"en">>, SomeText)

InFlight(request, prov, key) ==
    SelectProvider([NewCall("processRequest", request, 0) EXCEPT
                       !.looked = TRUE,
                       !.entryAge = EntryAge(<<>>, generateCacheKey(request), 0),
                       !.debited = 1],
                   prov, key)

InitRetry ==
    /\ now = 0
    /\ provider \in Providers
    /\ geminiKey \in Keys
    /\ cache = <<>>
    /\ tokens \in {MaxTokens - 1, 0}
    /\ lastRefill = 0
    /\ \E selected \in Providers :
          /\ InFlight(RetryRequest, selected, geminiKey).pc = "net"
          /\ calls = [s \in Slots |->
                IF s = 1 THEN InFlight(RetryRequest, selected, geminiKey) ELSE Idle]
    /\ started = 0
    /\ lastReturn = NoReturn
    /\ online = TRUE
    /\ fcache = <<>>
    /\ timer = NoTimer
    /\ lastCall = Epoch
    /\ fcalls = [f \in FSlots |-> NoFCall]
    /\ parseIn = NoText
    /\ parseOut = NotParsed
    /\ jsonEngine \in JsonEngines
    /\ consumers = [c \in Consumers |-> NoConsume]
    /\ dcalls = <<>>
    /\ ipcIn = NoIpc
    /\ ipcOut = NotInvoked

NextRetry ==
    \/ NextFacade
    \/ \E s \in Slots : callProcessRequest(s, RetryRequest)
    \/ \E s \in Slots : processRequestResumes(s)
    \/ \E s \in Slots : processRequestCatches(s)
    \/ \E s \in Slots : Return(s)

SpecRetry == InitRetry /\ [][NextRetry]_vars

\* SpecSurface, SpecFacadeSurface: as Spec and as SpecFacade, with callers who
\* also use the method that the class leaves public for no caller of the
\* repository: cacheResponse with any response, getCachedResponse with any key
SurfaceResponses ==
    { handleError(NetworkDown, MkRequest(GrammarCheck, EmptyStr, <<"en">>, SomeText)),
      ParseProviderText(GoodPayload, MkRequest(Rephrase, EmptyStr, EmptyStr, <<"cat">>),
                        "Gemini").response }

NextSurface ==
    \/ Next
    \/ \E r \in DirectRequests, v \in SurfaceResponses : cacheResponse(r, v)

SpecSurface == Init /\ [][NextSurface]_vars

NextFacadeSurface ==
    \/ NextFacade
    \/ \E t \in Texts : getCachedResponse(GrammarKey(t, UndefinedArg))
    \/ \E t \in Texts : getCachedResponse(RephraseKey(t, UndefinedArg))

SpecFacadeSurface == Init /\ [][NextFacadeSurface]_vars

\* SpecCache: LLMService after a burst of CacheMax requests with different
\* texts, all answered at once: the first MaxTokens at time 0, each of the
\* others as soon as its token had accrued; the cache is full and the bucket
\* is empty
FillerRequest(i) == MkRequest(GrammarCheck, EmptyStr, <<"en">>, <<ToString(i)>>)

FillerResponse(i) == ParseProviderText(GoodPayload, FillerRequest(i), "LM Studio").response

FillerStart(i) == Max(0, i - MaxTokens) * TokenMs

FullCache ==
    [i \in 1..CacheMax |->
        [key |-> generateCacheKey(FillerRequest(i)), value |-> FillerResponse(i),
         start |-> FillerStart(i), by |-> FillerRequest(i)]]

FillTime == FillerStart(CacheMax)

InitCache ==
    /\ now = FillTime
    /\ provider \in Providers
    /\ geminiKey \in Keys
    /\ cache = FullCache
    /\ tokens = 0
    /\ lastRefill = FillTime
    /\ calls = [s \in Slots |-> Idle]
    /\ started = 0
    /\ lastReturn = [req |-> FillerRequest(CacheMax), ok |-> TRUE, target |-> "lmstudio",
                     result |-> FillerResponse(CacheMax),
                     adapters |-> 1, fellBack |-> FALSE]
    /\ online = TRUE
    /\ fcache = <<>>
    /\ timer = NoTimer
    /\ lastCall = Epoch
    /\ fcalls = [f \in FSlots |-> NoFCall]
    /\ parseIn = NoText
    /\ parseOut = NotParsed
    /\ jsonEngine \in JsonEngines
    /\ consumers = [c \in Consumers |-> NoConsume]
    /\ dcalls = <<>>
    /\ ipcIn = NoIpc
    /\ ipcOut = NotInvoked

\* the oldest two texts, the newest one, and a text not seen before
CacheRequests ==
    { FillerRequest(1), FillerRequest(2), FillerRequest(CacheMax),
      MkRequest(GrammarCheck, EmptyStr, <<"en">>, SomeText) }

\* time passes, up to a time to live and MaxTicks tokens after the burst
AdvanceCache(d) ==
    /\ NoDone
    /\ NoneQueued
    /\ StepsTo(now + d - FillTime) <= MaxTicks + 1
    /\ now' = now + d
    /\ UNCHANGED <<provider, geminiKey, cache, tokens, lastRefill, calls, started,
                   lastReturn, rendererVars, parseVars, unitVars>>

NextCache ==
    \/ \E s \in OneCaller, r \in CacheRequests : callProcessRequest(s, r)
    \/ \E s \in OneCaller : processRequestResumes(s)
    \/ \E s \in OneCaller : processRequestCatches(s)
    \/ \E s \in OneCaller : TokensAccrued(s)
    \/ \E s \in OneCaller, o \in FacadeOutcomes : AdapterSettles(s, o)
    \/ \E s \in OneCaller : Return(s)
    \/ \E d \in {TokenMs, CacheTtl} : AdvanceCache(d)

SpecCache == InitCache /\ [][NextCache]_vars

\* SpecDebounce: a new Debouncer(DebounceDelay) and calls of debounce at any
\* times; timers that are due fire and functions that run settle
InitDebounce ==
    /\ Init
    /\ provider = "local"
    /\ geminiKey = ""

NextDebounce ==
    \/ debounce
    \/ debounceTimeout
    \/ \E i \in 1..MaxDebounced : debounceSettles(i)
    \/ DebounceTick

SpecDebounce ==
    /\ InitDebounce
    /\ [][NextDebounce]_vars
    /\ WF_vars(debounceTimeout)
    /\ \A i \in 1..MaxDebounced : WF_vars(debounceSettles(i))
    /\ WF_vars(DebounceTick)

\* SpecOffline: the renderer with navigator.onLine false throughout, asked
\* about texts with and without words of the table
OfflineTexts ==
    { EmptyStr, SomeText, <<"Teh">>, <<"cat">>, <<"constructor">>,
      <<"adn", " ", " ", "teh">> }

InitOffline ==
    /\ now = 0
    /\ provider \in Providers
    /\ geminiKey \in Keys
    /\ cache = <<>>
    /\ tokens = MaxTokens
    /\ lastRefill = 0
    /\ calls = [s \in Slots |-> Idle]
    /\ started = 0
    /\ lastReturn = NoReturn
    /\ online = FALSE
    /\ fcache = <<>>
    /\ timer = NoTimer
    /\ lastCall = Epoch
    /\ fcalls = [f \in FSlots |-> NoFCall]
    /\ parseIn = NoText
    /\ parseOut = NotParsed
    /\ jsonEngine \in JsonEngines
    /\ consumers = [c \in Consumers |-> NoConsume]
    /\ dcalls = <<>>
    /\ ipcIn = NoIpc
    /\ ipcOut = NotInvoked

NextOffline ==
    \/ \E t \in OfflineTexts : LLMProcessor_checkGrammar(t, UndefinedArg)
    \/ \E t \in OfflineTexts : LLMProcessor_rephraseText(t, UndefinedArg)
    \/ TimerFires
    \/ \E f \in FSlots : FacadeReturn(f)
    \/ Advance(TokenMs)

SpecOffline == InitOffline /\ [][NextOffline]_vars

\* SpecLimiter: a RateLimiter(10, 2), full as constructed, and callers of
\* consume() that do not wait for one another; timers fire, and time passes
InitLimiter ==
    /\ Init
    /\ provider = "local"
    /\ geminiKey = ""
    /\ tokens = MaxTokens

NextLimiter ==
    \/ \E c \in Consumers : consume(c)
    \/ \E c \in Consumers : consumeResumes(c)
    \/ LimiterTick

SpecLimiter ==
    /\ InitLimiter
    /\ [][NextLimiter]_vars
    /\ WF_vars(LimiterTick)
    /\ \A c \in Consumers : WF_vars(consumeResumes(c))

-----------------------------------------------------------------------------
(* SpecParse: the extraction of the suggestions from a provider's text, on    *)
(* every text made of prose, one array of suggestion objects, and prose      *)

ProseTokens == {"Here", "~~~", "timeout", "[", "]"}

RECURSIVE SeqsUpTo(_, _)
SeqsUpTo(S, n) ==
    IF n = 0 THEN {<<>>}
    ELSE LET shorter == SeqsUpTo(S, n - 1)
         IN  shorter \cup { Append(q, x) : q \in shorter, x \in S }

Proses == SeqsUpTo(ProseTokens, MaxProse)

SuggestionArrays ==
    { <<"[", "]">>, <<"[", "o1", "]">>, <<"[", "o2", ",", "o1", "]">>,
      <<"[", "o1", ",", "o3", "]">>, <<"[", "o4", "]">> }

InitParse ==
    /\ now = 0
    /\ provider = "local"
    /\ geminiKey = ""
    /\ cache = <<>>
    /\ tokens = MaxTokens
    /\ lastRefill = 0
    /\ calls = [s \in Slots |-> Idle]
    /\ started = 0
    /\ lastReturn = NoReturn
    /\ online = TRUE
    /\ fcache = <<>>
    /\ timer = NoTimer
    /\ lastCall = Epoch
    /\ fcalls = [f \in FSlots |-> NoFCall]
    /\ parseIn \in [pre : Proses, arr : SuggestionArrays, post : Proses]
    /\ parseOut = NotParsed
    /\ jsonEngine \in JsonEngines
    /\ consumers = [c \in Consumers |-> NoConsume]
    /\ dcalls = <<>>
    /\ ipcIn = NoIpc
    /\ ipcOut = NotInvoked

\* lines 230-248: the adapter reduces the text of a 2xx answer
Extract ==
    LET r == ParseProviderText(TextOf(parseIn), NoRequest, "LM Studio")
    IN  /\ parseOut.state = "pending"
        /\ parseOut' = [state |-> IF r.ok THEN "returned" ELSE "thrown",
                        suggestions |-> r.response.suggestions,
                        error |-> r.error]
        /\ UNCHANGED <<now, started, svcVars, rendererVars, parseIn, jsonEngine,
                       unitVars>>

NextParse == Extract

SpecParse == InitParse /\ [][NextParse]_vars

\* SpecKeys: grammar checks, through the facade and directly on LLMService,
\* of texts and languages that hold the separator of the cache keys
ColonPairs ==
    { [text |-> SomeText, language |-> <<"en">>],
      [text |-> <<":", "cat">>, language |-> <<"en">>],
      [text |-> <<"cat">>, language |-> <<"en", ":">>] }

NextKeys ==
    \/ \E p \in ColonPairs : LLMProcessor_checkGrammar(p.text, p.language)
    \/ \E s \in Slots, p \in ColonPairs : callCheckGrammar(s, p.text, p.language)
    \/ \E s \in Slots : processRequestResumes(s)
    \/ \E s \in Slots : processRequestCatches(s)
    \/ TimerFires
    \/ \E f \in FSlots : HandlerRuns(f)
    \/ \E s \in Slots : TokensAccrued(s)
    \/ \E s \in Slots, o \in FacadeOutcomes : AdapterSettles(s, o)
    \/ \E s \in Slots : HandlerReplies(s)
    \/ \E f \in FSlots : IpcReturns(f)
    \/ \E f \in FSlots : FacadeReturn(f)
    \/ \E s \in Slots : Return(s)
    \/ Advance(TokenMs)

SpecKeys == Init /\ [][NextKeys]_vars

\* SpecReconnect: the renderer calls the facade while navigator.onLine comes
\* and goes; of every call that returned it is noted what it asked
NextReconnect ==
    \/ \E t \in Texts : LLMProcessor_checkGrammar(t, UndefinedArg)
    \/ \E t \in Texts : LLMProcessor_rephraseText(t, UndefinedArg)
    \/ TimerFires
    \/ \E f \in FSlots : HandlerRuns(f)
    \/ \E s \in Slots, o \in FacadeOutcomes : AdapterSettles(s, o)
    \/ \E s \in Slots : HandlerReplies(s)
    \/ \E f \in FSlots : IpcReturns(f)
    \/ \E f \in FSlots : FacadeReturnNoted(f)
    \/ ConnectivityChanges
    \/ Advance(TokenMs)

InitReconnect ==
    /\ Init
    /\ tokens = MaxTokens

SpecReconnect == InitReconnect /\ [][NextReconnect]_vars

\* SpecBridge: one call of IPCBridge.invoke or send, on any channel and any
\* data nested up to MaxDepth, without window.electronAPI and with that of
\* each preload script
ChannelInputs ==
    {"ai:check-grammar", "settings:save", "window:focused", "evil:channel", ""}

InitBridge ==
    /\ now = 0
    /\ provider = "local"
    /\ geminiKey = ""
    /\ cache = <<>>
    /\ tokens = MaxTokens
    /\ lastRefill = 0
    /\ calls = [s \in Slots |-> Idle]
    /\ started = 0
    /\ lastReturn = NoReturn
    /\ online = TRUE
    /\ fcache = <<>>
    /\ timer = NoTimer
    /\ lastCall = Epoch
    /\ fcalls = [f \in FSlots |-> NoFCall]
    /\ parseIn = NoText
    /\ parseOut = NotParsed
    /\ jsonEngine \in JsonEngines
    /\ consumers = [c \in Consumers |-> NoConsume]
    /\ dcalls = <<>>
    /\ ipcIn \in [channel : ChannelInputs,
                  data : DataUpTo(MaxDepth) \cup {UndefinedData},
                  method : {"invoke", "send"},
                  api : ElectronApis]
    /\ ipcOut = NotInvoked

NextBridge ==
    \/ invoke
    \/ \E ok \in BOOLEAN : invokeSettles(ok)
    \/ send

SpecBridge == InitBridge /\ [][NextBridge]_vars

\* SpecBatch: the renderer calls processBatch with two or more different
\* texts, nothing cached; what is due happens: timers fire, requests settle,
\* answers are delivered
BatchWords == {SomeText, <<"cat">>, <<"Teh">>}

Batches ==
    { b \in SeqsUpTo(BatchWords, MaxCalls) :
        /\ Len(b) >= 2
        /\ \A i, j \in DOMAIN b : i # j => b[i] # b[j] }

InitBatch ==
    /\ Init
    /\ tokens = MaxTokens

NextBatch ==
    \/ \E b \in Batches, op \in {"checkGrammar", "rephraseText"} : processBatch(b, op)
    \/ TimerFires
    \/ \E f \in FSlots : HandlerRuns(f)
    \/ \E s \in Slots, o \in NetOutcomes : AdapterSettles(s, o)
    \/ \E s \in Slots : HandlerReplies(s)
    \/ \E f \in FSlots : IpcReturns(f)
    \/ \E f \in FSlots : FacadeReturn(f)
    \/ Advance(TokenMs)

SpecBatch ==
    /\ InitBatch
    /\ [][NextBatch]_vars
    /\ WF_vars(TimerFires)
    /\ WF_vars(\E f \in FSlots : HandlerRuns(f))
    /\ WF_vars(\E s \in Slots, o \in NetOutcomes : AdapterSettles(s, o))
    /\ WF_vars(\E s \in Slots : HandlerReplies(s))
    /\ WF_vars(\E f \in FSlots : IpcReturns(f))
    /\ WF_vars(\E f \in FSlots : FacadeReturn(f))

-----------------------------------------------------------------------------
(* Properties *)

Done(s) == calls[s].pc = "done"



\* what the caller of slot s receives when its Gemini fallback has ended
FallbackOutcome(s) ==
    IF calls[s].nets = 0
    THEN handleError(UnsupportedOperation(calls[s].req.operation), calls[s].req)
    ELSE LET r == AdapterResult(calls[s].outcome, calls[s].req, "Gemini")
         IN  IF r.ok THEN r.response ELSE handleError(r.error, calls[s].req)

\* a call with the fields of the request of the call that returned last, a
\* success for which a provider was asked, enters processRequest while the
\* entry has neither expired nor been evicted
SecondCall(s) ==
    /\ calls[s].pc = "idle"
    /\ calls'[s].looked
    /\ lastReturn.ok
    /\ calls'[s].req = lastReturn.req
    /\ CacheHas(cache, generateCacheKey(lastReturn.req), now)

\* every step in which an adapter succeeds stores the response under the key
\* of its request
SuccessIsStored(s) ==
    ( /\ calls[s].pc = "net"
      /\ calls'[s].pc = "done"
      /\ ~HasError(calls'[s].result) )
    => LET k == generateCacheKey(calls'[s].req)
       IN  /\ CacheHas(cache', k, now)
           /\ CacheValue(cache', k) = calls'[s].result
           /\ cache'[CacheIndex(cache', k)].by = calls'[s].req

\* the second call returns the response of the first at once, invokes no
\* adapter and leaves the rate limiter untouched
AnsweredFromCache(s) ==
    /\ calls'[s].pc = "done"
    /\ ~calls'[s].rejected
    /\ calls'[s].result = lastReturn.result
    /\ calls'[s].adapters = 0
    /\ calls'[s].nets = 0
    /\ calls'[s].debited = 0
    /\ tokens' = tokens
    /\ lastRefill' = lastRefill

\* C1 (as claimed): a successful response is stored under the key of its
\* request; and when the call that returned last was a success for R obtained
\* from a provider, a call with the fields of R that enters processRequest
\* while the entry has neither expired nor been evicted returns that same
\* response at once, invokes no adapter, leaves the rate limiter untouched,
\* and the adapters invoked over the two calls are 1 in all.
C1_OneInvocationInAll ==
    [][\A s \in Slots :
        /\ SuccessIsStored(s)
        /\ (SecondCall(s) /\ lastReturn.adapters >= 1)
           => /\ AnsweredFromCache(s)
              /\ lastReturn.adapters + calls'[s].adapters = 1
    ]_vars

\* C1 (amended): a successful response is stored under the key of its
\* request; and when the call that returned last was a success for R, a call
\* with the fields of R that enters processRequest while the entry has
\* neither expired nor been evicted returns that same response at once,
\* invokes no adapter and leaves the rate limiter untouched; the adapters
\* invoked over the two calls are 1 in all, and 2 when the first call fell
\* back from LM Studio to Gemini.
C1_CacheIdempotence ==
    [][\A s \in Slots :
        /\ SuccessIsStored(s)
        /\ SecondCall(s) => AnsweredFromCache(s)
        /\ (SecondCall(s) /\ lastReturn.adapters >= 1)
           => lastReturn.adapters + calls'[s].adapters =
                 IF lastReturn.fellBack THEN 2 ELSE 1
    ]_vars

\* the first of two processRequest calls for the same request fell back from
\* LM Studio to Gemini, and the second has been answered from the cache with
\* the suggestions Gemini gave the first
C1_Witness ==
    \E s \in Slots :
        /\ Done(s)
        /\ started = 2
        /\ calls[s].via = "processRequest"
        /\ lastReturn.ok
        /\ lastReturn.fellBack
        /\ lastReturn.adapters = 2
        /\ calls[s].req = lastReturn.req
        /\ calls[s].hit
        /\ calls[s].adapters = 0
        /\ calls[s].result = lastReturn.result
        /\ Len(calls[s].result.suggestions) = 2

NoErrorCached(c) == \A i \in DOMAIN c : ~HasError(c[i].value)

\* neither cache holds a Response with error set, and an error Response is
\* never an answer from a cache
OnlySuccessCached ==
    /\ NoErrorCached(cache)
    /\ NoErrorCached(fcache)
    /\ \A s \in Slots :
          (Done(s) /\ HasError(calls[s].result))
          => /\ ~calls[s].hit
             /\ calls[s].adapters >= 1
    /\ \A f \in FSlots :
          (fcalls[f].pc = "done" /\ fcalls[f].fromCache)
          => ~HasError(fcalls[f].result)

\* the call that returned last returned an error Response, and a call with
\* the fields of its request enters processRequest
RetryCall(s) ==
    /\ calls[s].pc = "idle"
    /\ calls'[s].looked
    /\ lastReturn # NoReturn
    /\ ~lastReturn.ok
    /\ calls'[s].req = lastReturn.req

\* the call misses the cache and goes on to the provider: it takes its token
\* or waits for it, and does not return before it has entered an adapter
AsksProvider(s) ==
    /\ ~calls'[s].hit
    /\ calls'[s].debited = 1 \/ calls'[s].pc = "waiting"
    /\ calls'[s].pc = "done" => calls'[s].adapters >= 1

\* C2 (as claimed): neither the cache of LLMService nor the cache of
\* LLMProcessor ever holds a Response with error set; and after a call has
\* returned an error Response, the next call with the same fields asks the
\* provider afresh.
C2_RetryAsksProvider ==
    /\ []OnlySuccessCached
    /\ [][\A s \in Slots : RetryCall(s) => AsksProvider(s)]_vars

\* C2 (amended): neither the cache of LLMService nor the cache of LLMProcessor
\* ever holds a Response with error set, and an error Response is never an
\* answer from a cache; after a call has returned an error Response, the next
\* call with the same fields asks the provider afresh, unless a call that
\* was in flight together with the failed one has stored a Response for
\* these fields in the meantime: then it returns that Response, which has no
\* error, and asks no provider.
C2_NoErrorCached ==
    /\ []OnlySuccessCached
    /\ [][\A s \in Slots :
            RetryCall(s)
            => LET cacheKey == generateCacheKey(lastReturn.req)
               IN  IF CacheHas(cache, cacheKey, now)
                   THEN /\ calls'[s].hit
                        /\ calls'[s].pc = "done"
                        /\ calls'[s].result = CacheValue(cache, cacheKey)
                        /\ ~HasError(calls'[s].result)
                        /\ calls'[s].adapters = 0
                   ELSE AsksProvider(s)
       ]_vars

\* a call through the facade failed and left both caches empty; the next call
\* with the same fields went through the facade to LLMService again, missed
\* its cache and invoked an adapter
C2_Witness ==
    \E s \in Slots :
        /\ Done(s)
        /\ started = 2
        /\ calls[s].origin = 2
        /\ ~lastReturn.ok
        /\ calls[s].req = lastReturn.req
        /\ calls[s].looked
        /\ ~calls[s].hit
        /\ calls[s].adapters >= 1
        /\ cache = <<>>
        /\ fcache = <<>>

\* C3: whatever fails in the adapters, on the primary and on the fallback, a
\* processRequest for a non-empty text returns (never throws) a Response with
\* error set, no suggestions, and the input text as original.
C3_NeverThrows ==
    \A s \in Slots :
        (Done(s) /\ calls[s].req.text # EmptyStr /\ calls[s].last # NoErr)
        => /\ ~calls[s].rejected
           /\ HasError(calls[s].result)
           /\ calls[s].result.suggestions = <<>>
           /\ calls[s].result.original = calls[s].req.text

\* the primary failed, the fallback failed too, and the call returned
C3_Witness ==
    \E s \in Slots :
        /\ Done(s)
        /\ calls[s].via = "processRequest"
        /\ calls[s].stage = "fallback"
        /\ calls[s].primary = NetworkDown
        /\ calls[s].last = FailedToParse("Gemini")
        /\ HasError(calls[s].result)

\* C4 (as claimed): a call with an empty text ends before any cache or
\* network activity: no lookup, no cache write, no token, no provider.
C4_EmptyTextNoActivity ==
    \A s \in Slots :
        (calls[s].pc # "idle" /\ calls[s].req.text = EmptyStr)
        => /\ ~calls[s].looked
           /\ ~calls[s].hit
           /\ ~calls[s].wrote
           /\ calls[s].debited = 0
           /\ calls[s].adapters = 0
           /\ calls[s].nets = 0

\* C5 (as claimed): an empty text is rejected, classified as Validation, and
\* never answered with a Response.
C5_EmptyTextRejected ==
    \A s \in Slots :
        (Done(s) /\ calls[s].req.text = EmptyStr)
        => /\ calls[s].rejected
           /\ ErrorCodeOf(handleError(calls[s].last, calls[s].req)) = VALIDATION_ERROR

\* C6: when the LM Studio adapter fails, then with a Gemini key configured the
\* Gemini adapter is invoked exactly once, nothing is invoked after it, and the
\* caller receives what it produced; without a key nothing more is invoked and
\* the caller receives the classified error of LM Studio.
C6_FallbackOnce ==
    \A s \in Slots :
        (Done(s) /\ calls[s].primary # NoErr)
        => IF calls[s].fbKey # ""
           THEN /\ calls[s].adapters = 2
                /\ calls[s].nets <= 2
                /\ calls[s].stage = "fallback"
                /\ calls[s].result = FallbackOutcome(s)
           ELSE /\ calls[s].adapters = 1
                /\ calls[s].nets <= 1
                /\ calls[s].stage = "primary"
                /\ calls[s].result = handleError(calls[s].primary, calls[s].req)

\* LM Studio timed out, Gemini was rejected, and the caller has the error of
\* Gemini, not that of LM Studio
C6_Witness ==
    \E s \in Slots :
        /\ Done(s)
        /\ calls[s].primary = TimeoutExceeded
        /\ calls[s].fbKey = "key"
        /\ calls[s].outcome.error = CredentialRejected
        /\ calls[s].result = handleError(CredentialRejected, calls[s].req)
        /\ calls[s].result # handleError(TimeoutExceeded, calls[s].req)

\* C7 (as claimed): a provider call that timed out, with no fallback success,
\* is reported as ERR_TIMEOUT.
C7_TimeoutClassified ==
    \A s \in Slots :
        (Done(s) /\ calls[s].last = TimeoutExceeded)
        => ErrorCodeOf(calls[s].result) = TIMEOUT_ERROR

\* C8 (as claimed): a 2xx answer without an extractable JSON array, or whose
\* extracted text is not JSON, is reported with the Parse classification.
C8_ParseClassified ==
    \A s \in Slots :
        ( /\ Done(s)
          /\ \/ calls[s].last \in {FailedToParse("LM Studio"), FailedToParse("Gemini")}
             \/ LET jsonMatch == MatchArray(calls[s].outcome.text)
                IN  /\ ~JsonParse(jsonMatch).ok
                    /\ calls[s].last = JsonSyntaxError(jsonMatch, jsonEngine) )
        => ErrorCodeOf(calls[s].result) = LLM_PARSE_ERROR

\* C10 (as claimed): a missing or rejected credential is reported as ERR_AUTH
\* with a message naming the provider; with the credential missing no request
\* is sent.
C10_AuthClassified ==
    \A s \in Slots :
        ( /\ Done(s)
          /\ calls[s].target = "gemini"
          /\ calls[s].last \in {GeminiKeyNotConfigured, CredentialRejected} )
        => /\ ErrorCodeOf(calls[s].result) = AUTH_ERROR
           /\ Includes(calls[s].result.error, "Gemini")
           /\ (calls[s].last = GeminiKeyNotConfigured => calls[s].nets = 0)

\* the text holds exactly one well-formed array: the one in the middle
OneArray(parts) ==
    LET text == TextOf(parts)
        from == Len(parts.pre) + 1
        to == Len(parts.pre) + Len(parts.arr)
    IN  \A i, j \in DOMAIN text :
            (i < j /\ text[i] = "[" /\ JsonParse(SubSeq(text, i, j)).ok)
            => (i = from /\ j = to)

\* C9 (as claimed): from a text holding one well-formed array of suggestion
\* objects amid prose, brackets in the prose included, the adapter returns
\* the suggestions of that array, in order.
C9_ExtractsTheArray ==
    (parseOut.state # "pending" /\ OneArray(parseIn))
    => /\ parseOut.state = "returned"
       /\ parseOut.suggestions =
            MapSuggestions(SelectSeq(parseIn.arr, LAMBDA x : x \in ObjectTokens))


AdmittedCount == Cardinality({c \in Consumers : consumers[c].pc = "returned"})

\* C11: consume() never rejects and never returns a failure value; every
\* consume() that has to wait returns true after a finite wait, whatever the
\* other callers do.
C11_ConsumeReturns ==
    /\ [](\A c \in Consumers :
            /\ consumers[c].pc # "rejected"
            /\ consumers[c].pc = "returned" => consumers[c].value)
    /\ \A c \in Consumers :
          (consumers[c].pc = "waiting") ~> (consumers[c].pc = "returned")

\* two callers found the bucket empty, waited, and both have returned true
C11_Witness ==
    \E b, c \in Consumers :
        /\ b # c
        /\ consumers[b].pc = "returned" /\ consumers[b].waited /\ consumers[b].value
        /\ consumers[c].pc = "returned" /\ consumers[c].waited /\ consumers[c].value

\* C12 (as claimed): whatever the consume() calls and their interleaving,
\* 0 <= tokens <= capacity.
C12_TokensInRange == 0 <= tokens /\ tokens <= MaxTokens

\* C13 (as claimed): a consume(1) debits only when a token is present at that
\* moment, so that the calls that have returned by time t are at most
\* capacity + refillRate * t.
C13_NoOverAdmission ==
    [][\A c \in Consumers :
        (consumers[c].pc # "returned" /\ consumers'[c].pc = "returned")
        => /\ Refill(tokens, lastRefill, now).tokens >= 1
           /\ AdmittedCount' * 1000 <= MaxTokens * 1000 + RefillRate * now
    ]_vars

\* n consume() calls were issued at time 0, one right after the other, no
\* other call was made, and all of them have returned
BurstReturned(n) ==
    /\ \A c \in 1..n : consumers[c].pc = "returned" /\ consumers[c].issuedAt = 0
    /\ \A c \in Consumers : c > n => consumers[c].pc = "idle"

\* C14 (as claimed): of capacity + k calls issued back-to-back on a full
\* bucket, the last returns no earlier than k / refillRate seconds after the
\* first was issued.
C14_BurstTakesItsTime ==
    \A k \in 1..MaxExtra :
        BurstReturned(MaxTokens + k) => now * RefillRate >= k * 1000


\* C15: the cache of LLMService never holds more than CacheMax entries; a get
\* that finds its entry makes it the most recently used and leaves the others
\* in their order; a new key inserted into the full cache takes the place of
\* the least recently used entry, the first of the order, and of no other.
C15_LruEviction ==
    /\ [](Len(cache) <= CacheMax)
    /\ [][\A s \in Slots :
            LET k == generateCacheKey(calls'[s].req)
                i == CacheIndex(cache, k)
            IN  /\ (calls[s].pc = "idle" /\ calls'[s].hit)
                   => /\ cache'[Len(cache')] = cache[i]
                      /\ SubSeq(cache', 1, Len(cache') - 1) = Without(cache, i)
                /\ ( /\ calls[s].pc = "net"
                     /\ calls'[s].wrote
                     /\ i = 0
                     /\ Len(cache) = CacheMax )
                   => /\ Len(cache') = CacheMax
                      /\ SubSeq(cache', 1, CacheMax - 1) = Tail(cache)
                      /\ cache'[CacheMax].key = k
         ]_vars

\* the oldest text was asked again and answered from the full cache; then a
\* new text was answered by a provider: its entry took the place of the second
\* oldest, and the oldest is still there
C15_Witness ==
    /\ started = 2
    /\ Len(cache) = CacheMax
    /\ CacheIndex(cache, generateCacheKey(FillerRequest(1))) = CacheMax - 1
    /\ CacheIndex(cache, generateCacheKey(FillerRequest(2))) = 0
    /\ cache[1].by = FillerRequest(2 + 1)
    /\ cache[CacheMax].by.text = SomeText
    /\ \E s \in Slots : Done(s) /\ calls[s].wrote

\* C16 (as claimed): a processRequest whose cache entry is older than the time
\* to live is a miss: it takes one token and makes exactly one provider call.
C16_ExpiredIsOneCall ==
    \A s \in Slots :
        (Done(s) /\ calls[s].entryAge > CacheTtl)
        => /\ ~calls[s].hit
           /\ calls[s].debited = 1
           /\ calls[s].adapters = 1

\* C16 (amended): a processRequest whose cache entry is older than the time to
\* live (counted from its insertion, whatever was read since) is a miss: it
\* takes one token and calls the selected provider's adapter exactly once,
\* and after it the fallback adapter, once, when the first failed and a
\* fallback credential is configured.
C16_ExpiredIsMiss ==
    \A s \in Slots :
        (Done(s) /\ calls[s].entryAge > CacheTtl)
        => /\ ~calls[s].hit
           /\ calls[s].debited = 1
           /\ calls[s].adapters =
                 IF calls[s].primary # NoErr /\ calls[s].fbKey # "" THEN 2 ELSE 1

\* the oldest text was read from the cache, the time to live passed, and the
\* same text was asked again: one token, one adapter, a fresh answer stored
C16_Witness ==
    \E s \in Slots :
        /\ Done(s)
        /\ started = 2
        /\ calls[s].req = FillerRequest(1)
        /\ calls[s].entryAge > CacheTtl
        /\ ~calls[s].hit
        /\ calls[s].debited = 1
        /\ calls[s].adapters = 1
        /\ calls[s].wrote
        /\ cache[Len(cache)].start = now


\* C17 (as claimed): of the calls of a burst only the last is executed, once,
\* and not before the delay has elapsed since that call arrived; so also in
\* the first burst after construction.
C17_DebouncedAfterDelay ==
    \A i \in DOMAIN dcalls :
        /\ dcalls[i].pc = "superseded" => dcalls[i].ranAt = 0 /\ ~dcalls[i].settled
        /\ dcalls[i].pc \in {"running", "ran"}
           => dcalls[i].ranAt - dcalls[i].arrived >= DebounceDelay

\* C18 (as claimed): the promise of every call of debounce eventually
\* settles, the promise of a superseded call included.
C18_EveryPromiseSettles ==
    \A i \in 1..MaxDebounced :
        (Len(dcalls) >= i) ~> (Len(dcalls) >= i /\ dcalls[i].settled)


\* the words of the table among the words of a text, in their order, each
\* with its correction
RECURSIVE DictionarySuggestions(_)
DictionarySuggestions(words) ==
    IF words = <<>> THEN <<>>
    ELSE LET w == Head(words)
             inTable == Len(w) = 1 /\ ToLowerCase(w[1]) \in DOMAIN commonMisspellings
         IN  (IF inTable
              THEN <<[text |-> commonMisspellings[ToLowerCase(w[1])],
                      confidence |-> OfflineConfidence, type |-> "spelling"]>>
              ELSE <<>>) \o DictionarySuggestions(Tail(words))

\* C19 (as claimed): while the renderer is offline no call reaches the main
\* process, and a checkGrammar or rephraseText that returns carries one
\* suggestion for each word of the text that is in the table, whatever its
\* case, in the order of the words: the correction, confidence 0.7, type
\* "spelling"; and none for any other word.
C19_OfflineSuggestions ==
    ~online =>
        /\ \A s \in Slots : calls[s].pc = "idle"
        /\ \A f \in FSlots :
              fcalls[f].pc = "done"
              => /\ fcalls[f].offline
                 /\ fcalls[f].result.suggestions =
                       DictionarySuggestions(SplitWords(fcalls[f].text))


\* the responses the program holds: the results of the calls of LLMService
\* and of the facade, the last one returned, and the entries of both caches
Responses ==
    {calls[s].result : s \in Slots} \cup {fcalls[f].result : f \in FSlots}
    \cup {lastReturn.result}
    \cup {cache[i].value : i \in DOMAIN cache}
    \cup {fcache[i].value : i \in DOMAIN fcache}

\* C20: every response of LLMService and of the facade, be it the answer of a
\* provider, a classified error or the offline heuristic, has no suggestions
\* when it has an error.
C20_ErrorMeansNoSuggestions ==
    \A r \in Responses : HasError(r) => r.suggestions = <<>>

\* a facade call is answered with a classified error of the main process and
\* no suggestions, while the answer of a provider, with its suggestions and
\* no error, is in the cache
C20_Witness ==
    /\ \E f \in FSlots :
          /\ fcalls[f].pc = "done"
          /\ ~fcalls[f].offline
          /\ ~fcalls[f].fromCache
          /\ ~fcalls[f].rejected
          /\ HasError(fcalls[f].result)
          /\ fcalls[f].result.suggestions = <<>>
    /\ \E i \in DOMAIN cache : cache[i].value.suggestions # <<>>


\* C21 (as claimed): no call of the facade ends in a rejected promise;
\* whatever fails in the IPC round trip or in LLMService, the caller gets a
\* Response, which carries an error.
C21_NoRejectionReachesUI ==
    \A f \in FSlots :
        fcalls[f].pc = "done" => ~fcalls[f].rejected


\* the objects of an array of suggestions, in the order they are written
ObjectsOf(arr) == SelectSeq(arr, LAMBDA x : x \in ObjectTokens)

\* C22 (as claimed): the suggestions built from a provider's array are as many
\* as its objects and in their order; each has a confidence between 0 and 1,
\* which is the one the provider wrote, 0 included, and 0.8 only when it wrote
\* none; and the type "unknown" only when the provider wrote none.
C22_ConfidencePassedThrough ==
    (parseOut.state = "returned" /\ OneArray(parseIn))
    => LET objs == ObjectsOf(parseIn.arr)
       IN  /\ Len(parseOut.suggestions) = Len(objs)
           /\ \A i \in DOMAIN objs :
                LET o == JsonObjects[objs[i]]
                    sg == parseOut.suggestions[i]
                IN  /\ sg.text = o.text
                    /\ sg.confidence \in 0..100
                    /\ o.hasConfidence => sg.confidence = o.confidence
                    /\ ~o.hasConfidence => sg.confidence = DefaultConfidence
                    /\ sg.type = "unknown" => ~o.hasType


\* C23 (as claimed): a call of processRequest decides on the fallback, and
\* takes the credential for it, from the settings as they were when it
\* selected its provider, whatever initialize() has set since.
C23_ConfigSnapshot ==
    \A s \in Slots :
        calls[s].primary # NoErr
        => /\ calls[s].fbKey = calls[s].cfgKey
           /\ (calls[s].stage = "fallback") = (calls[s].cfgKey # "")


\* C24: within one call of processRequest no adapter is called before the
\* cache lookup of that call missed and its consume() returned; the fallback
\* adapter is called only after the primary one failed; the cache is written
\* only after an adapter succeeded, never by a call whose adapter has thrown
\* and whose catch clause has yet to run; and a classified error is what
\* remains when none did.
C24_StepsInOrder ==
    \A s \in Slots :
        /\ calls[s].adapters >= 1
           => calls[s].looked /\ ~calls[s].hit /\ calls[s].debited = 1
        /\ calls[s].pc = "waiting" => calls[s].adapters = 0 /\ calls[s].debited = 0
        /\ calls[s].pc = "admitted" => calls[s].adapters = 0 /\ calls[s].debited = 1
        /\ calls[s].pc = "entered"
           => /\ calls[s].adapters >= 1
              /\ calls[s].thrown # NoErr
              /\ calls[s].last = NoErr
              /\ ~calls[s].wrote
              /\ calls[s].result = NoResponse
        /\ calls[s].stage = "fallback"
           => calls[s].primary # NoErr /\ calls[s].adapters = 2
        /\ calls[s].wrote
           => /\ calls[s].pc = "done"
              /\ calls[s].adapters >= 1
              /\ calls[s].last = NoErr
              /\ ~HasError(calls[s].result)
        /\ (Done(s) /\ calls[s].looked /\ HasError(calls[s].result) /\ ~calls[s].hit)
           => calls[s].last # NoErr /\ ~calls[s].wrote

\* a call missed the cache, waited for its token, saw LM Studio fail, was
\* answered by the fallback and wrote the answer to the cache
C24_Witness ==
    \E s \in Slots :
        /\ Done(s)
        /\ calls[s].wakeAt > 0
        /\ calls[s].stage = "fallback"
        /\ calls[s].primary # NoErr
        /\ calls[s].wrote
        /\ cache # <<>>


\* C25 (as claimed): a call of the facade is answered by the offline
\* heuristic only when the renderer is offline and the selected provider is
\* not the local one; with the local provider selected the call reaches
\* LLMService even when the renderer is offline.
C25_OfflineOnlyForRemoteProvider ==
    [][\A f \in FSlots :
          (~fcalls[f].offline /\ fcalls'[f].offline)
          => ~online /\ provider \notin {"local", "lmstudio"}]_vars


\* C26 (as claimed): a processBatch of two or more different texts, none of
\* them cached, eventually returns: each of the calls it made through the
\* debouncer settles and is returned.
C26_BatchReturns ==
    (started >= 2) ~> (\A f \in 1..started : fcalls[f].pc = "returned")


\* C27 (as claimed): a call answered from the cache of LLMService, or from the
\* cache of the facade, gets a response that was made for its own text (and
\* operation, style and language): requests that differ never share a key,
\* whatever their strings hold, the separator ':' included.
C27_HitIsForTheRequest ==
    /\ \A s \in Slots :
          (Done(s) /\ calls[s].hit) => calls[s].result.original = calls[s].req.text
    /\ \A f \in FSlots :
          (fcalls[f].pc = "done" /\ fcalls[f].fromCache)
          => fcalls[f].result.original = fcalls[f].text
    /\ \A i \in DOMAIN cache : cache[i].key = generateCacheKey(cache[i].by)
                               /\ cache[i].value.original = cache[i].by.text


\* C28: initialize() changes the provider and the credentials and nothing
\* else: the cache, the tokens and the refill time stay as they were; and a
\* call whose request has a live entry in the cache is answered with that
\* entry, whichever provider is selected by then.
C28_InitializeKeepsCache ==
    /\ [][(provider' # provider \/ geminiKey' # geminiKey)
          => /\ cache' = cache
             /\ tokens' = tokens
             /\ lastRefill' = lastRefill
             /\ calls' = calls]_vars
    /\ [][\A s \in Slots :
            LET k == generateCacheKey(calls'[s].req)
            IN  (calls[s].pc = "idle" /\ calls'[s].looked /\ CacheHas(cache, k, now))
                => /\ calls'[s].hit
                   /\ calls'[s].result = CacheValue(cache, k)
                   /\ calls'[s].adapters = 0]_vars

\* an answer of LM Studio was cached while the local provider was selected;
\* Gemini was selected then, and the same request is answered from the cache
C28_Witness ==
    \E s \in Slots :
        /\ Done(s)
        /\ calls[s].hit
        /\ lastReturn.ok
        /\ lastReturn.target = "lmstudio"
        /\ provider = "gemini"
        /\ calls[s].req = lastReturn.req
        /\ calls[s].result = lastReturn.result
        /\ ~HasError(calls[s].result)


\* C29: the answer of the offline heuristic is not written to the cache of
\* the facade; a call answered from that cache leaves the pending timer and
\* the other calls as they are; so a call made online is never answered with
\* the offline answer of an earlier identical call, and when its timer fires
\* online it is sent to the main process, where LLMService is called with it.
C29_OfflineAnswerNotCached ==
    /\ [][\A f \in FSlots :
            /\ (~fcalls[f].offline /\ fcalls'[f].offline) => fcache' = fcache
            /\ (~fcalls[f].fromCache /\ fcalls'[f].fromCache)
               => /\ timer' = timer
                  /\ lastCall' = lastCall
                  /\ \A g \in FSlots \ {f} : fcalls'[g] = fcalls[g]
            /\ ( /\ fcalls[f].pc = "debouncing"
                 /\ fcalls'[f].pc \notin {"debouncing", "superseded"}
                 /\ online
                 /\ fcalls[f].text # EmptyStr )
               => fcalls'[f].pc = "sent"
            /\ ( /\ fcalls[f].pc = "sent"
                 /\ fcalls'[f].pc # "sent"
                 /\ fcalls[f].text # EmptyStr )
               => /\ fcalls'[f].pc = "ipc"
                  /\ calls'[fcalls'[f].slot].origin = f
                  /\ calls'[fcalls'[f].slot].req.text = fcalls[f].text
         ]_vars
    /\ [](\A f \in FSlots :
            (fcalls[f].pc = "done" /\ fcalls[f].fromCache)
            => fcalls[f].result # handleOfflineMode(fcalls[f].text))

\* a call was answered by the offline heuristic; online again, the same call
\* is made once more: nothing is cached, and it is with the main process
C29_Witness ==
    \E g, f \in FSlots :
        /\ g < f
        /\ fcalls[g].pc = "returned"
        /\ fcalls[g].offline
        /\ fcalls[f].key = fcalls[g].key
        /\ online
        /\ fcalls[f].pc = "ipc"
        /\ calls[fcalls[f].slot].origin = f
        /\ fcache = <<>>


\* data holds, at some depth, an object with an own key __proto__ or
\* constructor
RECURSIVE HoldsUnsafeKey(_)
HoldsUnsafeKey(data) ==
    \E p \in data.props : p[1] \in UnsafeKeys \/ HoldsUnsafeKey(p[2])

\* C30: when the channel is not one of IpcChannels, or the data holds at any
\* depth an object with an own key __proto__ or constructor, invoke rejects
\* and send returns, and neither calls a method of window.electronAPI.
C30_RefusedWithoutApiCall ==
    ( /\ ipcOut.state # "pending"
      /\ \/ ipcIn.channel \notin IpcChannels
         \/ HoldsUnsafeKey(ipcIn.data) )
    => /\ ipcOut.apiCalls = 0
       /\ ipcIn.method = "invoke" => ipcOut.state = "rejected"
       /\ ipcIn.method = "send" => ipcOut.state = "returned"

\* invoke on an allowed channel, window.electronAPI in place, with data whose
\* text is an object that has a constructor key: rejected, nothing called
C30_Witness ==
    /\ ipcIn.method = "invoke"
    /\ ipcIn.channel = "ai:check-grammar"
    /\ ipcIn.api = "part_002"
    /\ ipcIn.data = Obj({<<"text", Obj({<<"constructor", StringData>>})>>})
    /\ ipcOut.state = "rejected"
    /\ ipcOut.error = <<"Invalid IPC data">>
    /\ ipcOut.apiCalls = 0

====
